---- MODULE Spec2Model ----
(***************************************************************************)
(* A model of the Lo-Modics field vocoder: the audio worklet processor     *)
(* (SVF band-pass cascades, envelope followers, unison carrier), the WAV   *)
(* encoder and the useVocoderAudio hook that drives them.                  *)
(*                                                                         *)
(* Numbers.  The source computes in IEEE doubles.  Here every sample,      *)
(* coefficient, phase and parameter is a fixed-point integer with 20       *)
(* fractional bits (the real v is the integer v * SCALE, rounded to the    *)
(* nearest unit).  Products and quotients are formed in pieces so that no  *)
(* intermediate value leaves the 32-bit range of the checker's integers.   *)
(***************************************************************************)
EXTENDS Integers, Sequences, FiniteSets, TLC

\* ---------------------------------------------------------------- bounds

\* Frames per process() call (the platform's render quantum, shortened).
BlockLen == 2
\* Blocks one engine processes in a run.
MaxBlocks == 2
\* Messages posted to one engine's port in a run.
MaxPosts == 2

\* ------------------------------------------------------------ fixed point

HALF == 2^10
SCALE == HALF * HALF
\* The value JavaScript yields for a read of a missing sample (undefined,
\* which arithmetic turns into NaN): one value outside the numeric range.
NaN == -(2^30)
\* The value of a field never assigned (SVF._fc and _q before the first call).
UNDEFINED == NaN + 1

Abs(a) == IF a < 0 THEN -a ELSE a
Sgn(a) == IF a < 0 THEN -1 ELSE 1

\* a * b / SCALE rounded to nearest, for a, b >= 0, from the halves of a and b.
MulAbs(a, b) ==
  (a \div HALF) * (b \div HALF)
  + (((a \div HALF) * (b % HALF) + (a % HALF) * (b \div HALF))
     + (((a % HALF) * (b % HALF) + SCALE \div 2) \div HALF)) \div HALF

\* The double product a * b.
Mul(a, b) ==
  IF a >= 0
  THEN IF b >= 0 THEN MulAbs(a, b) ELSE -MulAbs(a, -b)
  ELSE IF b >= 0 THEN -MulAbs(-a, b) ELSE MulAbs(-a, -b)

\* floor(a * 2^n / b) for 0 <= a < b, one bit of the quotient per step.
RECURSIVE FracBits(_, _, _)
FracBits(a, b, n) ==
  IF n = 0 THEN 0
  ELSE LET d == 2 * a
           bit == IF d >= b THEN 1 ELSE 0
       IN  bit * 2^(n - 1) + FracBits(d - bit * b, b, n - 1)

\* |a| / |b| in fixed point, for a >= 0, b > 0.
DivAbs(a, b) == (a \div b) * SCALE + FracBits(a % b, b, 20)

\* The double quotient a / b (b # 0).
Div(a, b) == Sgn(a) * Sgn(b) * DivAbs(Abs(a), Abs(b))

\* The remainder a % b of JavaScript (b > 0): it has the sign of a.
Remainder(a, b) == IF a < 0 THEN -((-a) % b) ELSE a % b

\* The literal n / d (small n).
Fix(n, d) == (n * SCALE + (d \div 2)) \div d

\* a * n / d for a fixed-point a >= 0 and integers n >= 0, d > 0.
MulDivInt(a, n, d) ==
  LET ah == a \div HALF
      al == a % HALF
      hi == ah * n
  IN  (hi \div d) * HALF + ((hi % d) * HALF + al * n) \div d

\* e^(f * ln 2) for 0 <= f < 1, by its Taylor series.
LN2 == 726817
RECURSIVE ExpSeries(_, _, _)
ExpSeries(y, term, k) ==
  IF k > 9 \/ term = 0 THEN 0
  ELSE term + ExpSeries(y, Mul(term, y) \div k, k + 1)

\* 2 ** x.
Exp2(x) ==
  LET Shift(n, m) == IF n >= 0 THEN m * 2^n ELSE m \div 2^(-n)
      Whole(n) == Shift(n, ExpSeries(Mul(x - n * SCALE, LN2), SCALE, 1))
  IN  Whole(x \div SCALE)

\* Math.PI.
PI == 3294199

\* sin and cos by their Taylor series; Math.tan as their quotient.
RECURSIVE TrigSeries(_, _, _)
TrigSeries(x2, term, k) ==
  IF k > 17 \/ term = 0 THEN 0
  ELSE term + TrigSeries(x2, -(Mul(term, x2) \div (k * (k + 1))), k + 2)

Sin(x) == TrigSeries(Mul(x, x), x, 2)
Cos(x) == TrigSeries(Mul(x, x), SCALE, 1)
Tan(x) == Div(Sin(x), Cos(x))


\* ------------------------------------------------------ worklet: helpers

\* midi_to_hz: 2 ** ((n - 69) / 12) * 440, in Hz.
midi_to_hz(n) == Exp2((n - 69 * SCALE) \div 12) * 440

lerp(a, b, t) == a + Mul(b - a, t)

\* ---------------------------------------------------------- worklet: SVF
\* A value used more than once is handed on as an operator parameter (the
\* local operators below), which is evaluated once.

NewStage == [lp |-> 0, bp |-> 0, hp |-> 0, ap |-> 0, ic1eq |-> 0, ic2eq |-> 0]
NaNStage == [lp |-> NaN, bp |-> NaN, hp |-> 0, ap |-> 0, ic1eq |-> NaN, ic2eq |-> NaN]

\* new SVF({mode, num, q}).  cfc and cq are the fields _fc and _q.  computed
\* counts the coefficient computations the filter has made (a history
\* counter, not a field of the source).
NewSVF(mode, num, q) ==
  [stages |-> [i \in 1..num |-> NewStage], mode |-> mode, num |-> num,
   q |-> q, fc |-> SCALE \div 4,
   cfc |-> UNDEFINED, cq |-> UNDEFINED,
   g |-> UNDEFINED, k |-> UNDEFINED,
   a1 |-> UNDEFINED, a2 |-> UNDEFINED, a3 |-> UNDEFINED,
   computed |-> 0]

\* SVF._clock: one trapezoidal update of a stage.
Clock(s, input, a1, a2, a3) ==
  LET Update(v1, v2) ==
        [s EXCEPT !.ic1eq = 2 * v1 - s.ic1eq,
                  !.ic2eq = 2 * v2 - s.ic2eq,
                  !.lp = v2, !.bp = v1]
      Taps(v3) ==
        Update(Mul(a1, s.ic1eq) + Mul(a2, v3),
               s.ic2eq + Mul(a2, s.ic1eq) + Mul(a3, v3))
  IN  Taps(input - s.ic2eq)

\* A faulty variant of CoefficientsStale: the cache is never trusted.
CoefficientsAlwaysStale(f) == TRUE

\* The test that guards the coefficient computation in SVF.process.
CoefficientsStale(f) == f.fc # f.cfc \/ f.q # f.cq

\* A faulty variant of Coefficients: the damping k is left out (0).
CoefficientsUndamped(f) ==
  LET A3(g, k, a1, a2) ==
        [f EXCEPT !.cfc = f.fc, !.cq = f.q, !.g = g, !.k = k,
                  !.a1 = a1, !.a2 = a2, !.a3 = Mul(g, a2),
                  !.computed = f.computed + 1]
      A2(g, k, a1) == A3(g, k, a1, Mul(g, a1))
      A1(g, k) == A2(g, k, Div(SCALE, SCALE + Mul(g, g + k)))
  IN  A1(Tan(Mul(PI, f.fc \div 2)), 0)

\* The body of that if: g, k, a1, a2, a3 from (fc, q).
Coefficients(f) ==
  LET A3(g, k, a1, a2) ==
        [f EXCEPT !.cfc = f.fc, !.cq = f.q, !.g = g, !.k = k,
                  !.a1 = a1, !.a2 = a2, !.a3 = Mul(g, a2),
                  !.computed = f.computed + 1]
      A2(g, k, a1) == A3(g, k, a1, Mul(g, a1))
      A1(g, k) == A2(g, k, Div(SCALE, SCALE + Mul(g, g + k)))
  IN  A1(Tan(Mul(PI, f.fc \div 2)), Div(SCALE, f.q))

\* The tap SVF.process reads from a stage: stages[i][mode].
Tap(s, mode) ==
  CASE mode = "lp" -> s.lp
    [] mode = "bp" -> s.bp
    [] mode = "hp" -> s.hp
    [] OTHER -> s.ap

\* A faulty variant of StageLoop: each stage is clocked once.
RECURSIVE StageLoopClockedOnce(_, _, _, _)
StageLoopClockedOnce(f, done, i, input) ==
  LET Rest(s) == StageLoopClockedOnce(f, Append(done, s), i + 1, Tap(s, f.mode))
  IN  IF i > f.num THEN [stages |-> done, out |-> input]
      ELSE Rest(Clock(f.stages[i], input, f.a1, f.a2, f.a3))

\* The stage loop of SVF.process: each stage clocked twice with its input,
\* its tap the input of the next.  done holds the stages already clocked.
RECURSIVE StageLoop(_, _, _, _)
StageLoop(f, done, i, input) ==
  LET Rest(s) == StageLoop(f, Append(done, s), i + 1, Tap(s, f.mode))
  IN  IF i > f.num THEN [stages |-> done, out |-> input]
      ELSE Rest(Clock(Clock(f.stages[i], input, f.a1, f.a2, f.a3),
                      input, f.a1, f.a2, f.a3))

\* SVF.process(input): the filter after the call and the value returned.
\* A NaN input, or a NaN already in the integrators, makes every v1 and v2
\* NaN, and with them the integrators and the result.
SVFProcess(f0, input) ==
  LET Result(f, r) == [svf |-> [f EXCEPT !.stages = r.stages], out |-> r.out]
      Stages(f) ==
        IF input = NaN \/ f.stages[1].ic1eq = NaN
        THEN [svf |-> [f EXCEPT !.stages = [i \in 1..f.num |-> NaNStage]],
              out |-> NaN]
        ELSE Result(f, StageLoop(f, <<>>, 1, input))
  IN  Stages(IF CoefficientsStale(f0) THEN Coefficients(f0) ELSE f0)

\* ------------------------------------------------- worklet: envelope

NewEnvelopeFollower(attack, release) ==
  [a |-> [attack |-> attack, release |-> release], y1 |-> 0]

\* EnvelopeFollower.process(x): the follower after the call (y1 is returned).
EnvelopeProcess(ef, x) ==
  LET Smooth(c) == [ef EXCEPT !.y1 = Mul(SCALE - c, ef.y1) + Mul(c, x)]
  IN  IF x = NaN \/ ef.y1 = NaN THEN [ef EXCEPT !.y1 = NaN]
      ELSE Smooth(IF x > ef.y1 THEN ef.a.attack ELSE ef.a.release)

\* ---------------------------------------------------- worklet: carrier

nunison == 3

\* Sy.constructor: rnd holds the nunison values Math.random() returns.
RECURSIVE NewOps(_, _)
NewOps(rnd, i) ==
  LET Voice(semitn) == [p |-> rnd[i + 1], detune |-> Exp2(semitn \div 12)]
      Spread(t) == Voice(Mul(t * 2 - SCALE, Fix(1, 10)))
  IN  IF i >= nunison THEN <<>>
      ELSE <<Spread(IF nunison > 1 THEN Div(i * SCALE, (nunison - 1) * SCALE)
                    ELSE SCALE \div 2)>>
           \o NewOps(rnd, i + 1)

\* ticks counts the calls of process (a history counter).
NewSy(rnd) == [ops |-> NewOps(rnd, 0), freq |-> UNDEFINED, ticks |-> 0]

\* A faulty variant of OpsLoop: the phase is advanced and not wrapped.
RECURSIVE OpsLoopNoWrap(_, _, _, _, _)
OpsLoopNoWrap(ops, freq, i, done, val) ==
  IF i > Len(ops) THEN [ops |-> done, val |-> val]
  ELSE OpsLoopNoWrap(ops, freq, i + 1,
                     Append(done, [ops[i] EXCEPT
                                     !.p = ops[i].p + Mul(freq, ops[i].detune)]),
                     val + (IF ops[i].p < SCALE \div 2 THEN 1 ELSE -1))

\* The voice loop of Sy.process: val summed, each phase advanced and wrapped.
RECURSIVE OpsLoop(_, _, _, _, _)
OpsLoop(ops, freq, i, done, val) ==
  IF i > Len(ops) THEN [ops |-> done, val |-> val]
  ELSE OpsLoop(ops, freq, i + 1,
               Append(done, [ops[i] EXCEPT
                               !.p = Remainder(ops[i].p + Mul(freq, ops[i].detune),
                                               SCALE)]),
               val + (IF ops[i].p < SCALE \div 2 THEN 1 ELSE -1))

\* Sy.process(that): params and sampleRate are that.params and 1/that.ditty.dt;
\* rnd is the value Math.random() returns.
SyProcess(sy, params, sampleRate, rnd) ==
  LET Mix(freq, r) ==
        [sy |-> [sy EXCEPT !.ops = r.ops, !.freq = freq, !.ticks = sy.ticks + 1],
         out |-> lerp(Div(r.val * SCALE, Len(sy.ops) * SCALE),
                      rnd - SCALE \div 2, params.carrierNoise)]
      Voices(freq) == Mix(freq, OpsLoop(sy.ops, freq, 1, <<>>, 0))
  IN  Voices(midi_to_hz(40 * SCALE + params.pitch) \div sampleRate)

\* ------------------------------------------------- worklet: processor

freqs == <<123, 294, 481, 746, 1387, 2255, 3403, 4865>>
attack == Fix(5, 1000)
release == Fix(20, 1000)

\* VocoderProcessor.initBands.
initBands ==
  [i \in 1..Len(freqs) |->
     [freq |-> freqs[i],
      modFilter |-> NewSVF("bp", 2, 4 * SCALE),
      carrierFilter |-> NewSVF("bp", 2, 4 * SCALE),
      envelopeFollower |-> NewEnvelopeFollower(attack, release)]]

\* The params the constructor installs.
ConstructorParams ==
  [carrierNoise |-> Fix(1, 10), size |-> 0, speed |-> SCALE, pitch |-> Fix(3, 10)]

\* new VocoderProcessor() in a global scope of the given sampleRate.  ditty.dt
\* (1 / sampleRate) is held as sampleRate, and x * dt formed as x / sampleRate.
NewProcessor(sampleRate, rnd) ==
  [params |-> ConstructorParams,
   ditty |-> [sampleRate |-> sampleRate],
   carrierSynth |-> NewSy(rnd),
   bands |-> initBands]

\* Faulty variants of OnMessage: one that takes only the first snapshot, and
\* one that rebuilds the bands with every snapshot.
OnMessageFirstOnly(proc, data) ==
  IF data.type = "UPDATE_PARAMS" /\ proc.params = ConstructorParams
  THEN [proc EXCEPT !.params = data.params]
  ELSE proc

OnMessageReset(proc, data) ==
  IF data.type = "UPDATE_PARAMS"
  THEN [proc EXCEPT !.params = data.params, !.bands = initBands]
  ELSE proc

\* port.onmessage.
OnMessage(proc, data) ==
  IF data.type = "UPDATE_PARAMS" THEN [proc EXCEPT !.params = data.params]
  ELSE proc

\* A faulty variant of BandCutoff: the playback speed scales the cutoff.
BandCutoffWithSpeed(proc, band) ==
  Mul(MulDivInt(Exp2(proc.params.size), band.freq, proc.ditty.sampleRate),
      proc.params.speed)

\* The cutoff process sets on a band's two filters.
BandCutoff(proc, band) ==
  MulDivInt(Exp2(proc.params.size), band.freq, proc.ditty.sampleRate)

\* A faulty variant of MathAbs: the value is passed on as it is.
MathAbsMissing(x) == x

\* Math.abs, which keeps NaN.
MathAbs(x) == IF x = NaN THEN NaN ELSE Abs(x)

\* A faulty variant of BandStep: the envelope follows the filtered carrier.
BandStepCarrierEnvelope(proc, band, modulatorSample, carrierSample) ==
  LET Product(m, ef, c) ==
        [band |-> [band EXCEPT !.modFilter = m.svf, !.envelopeFollower = ef,
                               !.carrierFilter = c.svf],
         out |-> IF ef.y1 = NaN THEN NaN ELSE Mul(c.out, ef.y1)]
      Envelope(m, c) ==
        Product(m, EnvelopeProcess(band.envelopeFollower, MathAbs(c.out)), c)
      Filters(fc) ==
        Envelope(SVFProcess([band.modFilter EXCEPT !.fc = fc], modulatorSample),
                 SVFProcess([band.carrierFilter EXCEPT !.fc = fc], carrierSample))
  IN  Filters(BandCutoff(proc, band))

\* The body of the band loop for one band: the band afterwards and the
\* product carrierFiltered * envelope.
BandStep(proc, band, modulatorSample, carrierSample) ==
  LET Product(m, ef, c) ==
        [band |-> [band EXCEPT !.modFilter = m.svf, !.envelopeFollower = ef,
                               !.carrierFilter = c.svf],
         out |-> IF ef.y1 = NaN THEN NaN ELSE Mul(c.out, ef.y1)]
      Envelope(m, c) ==
        Product(m, EnvelopeProcess(band.envelopeFollower, MathAbs(m.out)), c)
      Filters(fc) ==
        Envelope(SVFProcess([band.modFilter EXCEPT !.fc = fc], modulatorSample),
                 SVFProcess([band.carrierFilter EXCEPT !.fc = fc], carrierSample))
  IN  Filters(BandCutoff(proc, band))

\* The band loop: outSample summed over the bands.  done holds the bands
\* already run.
RECURSIVE BandLoop(_, _, _, _, _, _)
BandLoop(proc, i, done, outSample, modulatorSample, carrierSample) ==
  LET Rest(r) ==
        BandLoop(proc, i + 1, Append(done, r.band),
                 IF outSample = NaN \/ r.out = NaN THEN NaN
                 ELSE outSample + r.out,
                 modulatorSample, carrierSample)
  IN  IF i > Len(proc.bands) THEN [bands |-> done, outSample |-> outSample]
      ELSE Rest(BandStep(proc, proc.bands[i], modulatorSample, carrierSample))

\* A faulty variant of SampleStep: the carrier is not ticked for a modulator
\* sample of 0.
SampleStepSkipTick(proc, modulatorSample, rnd) ==
  LET Gain(p1, r) ==
        [proc |-> [p1 EXCEPT !.bands = r.bands],
         finalSample |-> IF r.outSample = NaN THEN NaN ELSE r.outSample * 4]
      Bands(p1, carrierSample) ==
        Gain(p1, BandLoop(p1, 1, <<>>, 0, modulatorSample, carrierSample))
      Carrier(c) == Bands([proc EXCEPT !.carrierSynth = c.sy], c.out)
  IN  IF modulatorSample = 0 THEN Bands(proc, 0)
      ELSE Carrier(SyProcess(proc.carrierSynth, proc.params, proc.ditty.sampleRate, rnd))

\* One pass of the sample loop of process: the carrier ticked, the bands run,
\* the gain applied.  rnd is the value Math.random() returns in the tick.
SampleStep(proc, modulatorSample, rnd) ==
  LET Gain(p1, r) ==
        [proc |-> [p1 EXCEPT !.bands = r.bands],
         finalSample |-> IF r.outSample = NaN THEN NaN ELSE r.outSample * 4]
      Bands(p1, carrierSample) ==
        Gain(p1, BandLoop(p1, 1, <<>>, 0, modulatorSample, carrierSample))
      Carrier(c) == Bands([proc EXCEPT !.carrierSynth = c.sy], c.out)
  IN  Carrier(SyProcess(proc.carrierSynth, proc.params, proc.ditty.sampleRate, rnd))

\* modulatorChannel[i]: undefined (NaN in arithmetic) past the channel's end.
ModulatorSample(modulatorChannel, i) ==
  IF i <= Len(modulatorChannel) THEN modulatorChannel[i] ELSE NaN

\* The sample loop of process over i = from .. n (n = leftChannel.length):
\* the processor after it, the finalSample of each pass, and the params each
\* pass read (used: a history of the call).
RECURSIVE SampleLoop(_, _, _, _, _, _, _)
SampleLoop(proc, modulatorChannel, n, rnd, i, finals, used) ==
  LET Rest(r) ==
        SampleLoop(r.proc, modulatorChannel, n, rnd, i + 1,
                   Append(finals, r.finalSample), Append(used, proc.params))
  IN  IF i > n THEN [proc |-> proc, finals |-> finals, used |-> used]
      ELSE Rest(SampleStep(proc, ModulatorSample(modulatorChannel, i), rnd[i]))

\* The writes of the loop: leftChannel[i] and rightChannel[i] = finalSample,
\* where leftChannel is output[0] and rightChannel is output[1] when there is
\* one and leftChannel again otherwise.
WriteSamples(output, finals) ==
  [c \in 1..Len(output) |-> IF c <= 2 THEN finals ELSE output[c]]

\* A faulty variant of ModulatorAbsent: the channel's length is not tested.
ModulatorAbsentNoChannels(modulatorInput) == Len(modulatorInput) = 0

\* The test of the early return of process.
ModulatorAbsent(modulatorInput) ==
  Len(modulatorInput) = 0 \/ Len(modulatorInput[1]) = 0

\* The early return: leftChannel[i] and rightChannel[i] = 0.
SilentBlock(output) ==
  [c \in 1..Len(output) |->
     IF c <= 2 THEN [i \in 1..Len(output[c]) |-> 0] ELSE output[c]]

\* A faulty variant of Run: every call starts with the envelope levels at 0.
RunEnvelopesReset(proc, modulatorInput, n, rnd) ==
  LET Done(r) ==
        [proc |-> r.proc, finals |-> r.finals, used |-> r.used,
         ret |-> "true", silent |-> FALSE]
      Reset(p) ==
        [p EXCEPT !.bands = [b \in 1..Len(p.bands) |->
                               [p.bands[b] EXCEPT !.envelopeFollower.y1 = 0]]]
  IN  IF ModulatorAbsent(modulatorInput)
      THEN [proc |-> proc, finals |-> <<>>, used |-> <<>>, ret |-> "true",
            silent |-> TRUE]
      ELSE Done(SampleLoop(Reset(proc), modulatorInput[1], n, rnd, 1, <<>>, <<>>))

\* The part of process that does not depend on the output's channel count:
\* [proc, finals, used, ret, silent], with ret "true", or "TypeError" where the
\* call throws (modulatorChannel[i] read on an undefined modulatorChannel), and
\* silent telling that the early return was taken.
Run(proc, modulatorInput, n, rnd) ==
  LET Done(r) ==
        [proc |-> r.proc, finals |-> r.finals, used |-> r.used,
         ret |-> "true", silent |-> FALSE]
  IN  IF ModulatorAbsent(modulatorInput)
      THEN [proc |-> proc, finals |-> <<>>, used |-> <<>>, ret |-> "true",
            silent |-> TRUE]
      ELSE IF Len(modulatorInput) = 0
      THEN [proc |-> proc, finals |-> <<>>, used |-> <<>>, ret |-> "TypeError",
            silent |-> FALSE]
      ELSE Done(SampleLoop(proc, modulatorInput[1], n, rnd, 1, <<>>, <<>>))

\* The output channels after the call whose Run gave r.
Written(r, output) ==
  IF r.silent THEN SilentBlock(output)
  ELSE IF r.ret = "TypeError" THEN output
  ELSE WriteSamples(output, r.finals)

\* VocoderProcessor.process(inputs, outputs), with modulatorInput = inputs[0]
\* and output = outputs[0].
Process(proc, modulatorInput, output, rnd) ==
  LET Result(r) ==
        [proc |-> r.proc, output |-> Written(r, output), ret |-> r.ret,
         used |-> r.used]
  IN  Result(Run(proc, modulatorInput, Len(output[1]), rnd))

\* The output arrays the platform hands to process: channels of zeros.
ZeroOutput(channels, frames) == [c \in 1..channels |-> [i \in 1..frames |-> 0]]

\* ---------------------------------------------------------- WAV encoder

\* The n bytes of data (0 <= data < 256^n), least significant first: what
\* DataView.setUint16 and setUint32 store with littleEndian = true.
RECURSIVE Bytes(_, _)
Bytes(data, n) ==
  IF n = 0 THEN <<>> ELSE <<data % 256>> \o Bytes(data \div 256, n - 1)

\* Math.max(-1, Math.min(1, x || 0)).
ClampSample(x) ==
  IF x = NaN THEN 0
  ELSE IF x > SCALE THEN SCALE
  ELSE IF x < -SCALE THEN -SCALE
  ELSE x

\* sample * 32768 for sample < 0 and sample * 32767 otherwise, as setInt16
\* converts it: the fraction dropped (toward zero).
Scaled16(sample) ==
  IF sample < 0 THEN -((-sample) \div (SCALE \div 32768))
  ELSE sample \div (SCALE \div 32768)
       + (((sample % (SCALE \div 32768)) * 32768 - sample) \div SCALE)

\* view.setInt16(pos, x, true) at the end of the bytes written so far.
setInt16(view, x) == view \o Bytes(x % 65536, 2)

\* A faulty variant of WavHeader: the byte rate leaves out the channel count.
WavHeaderMonoByteRate(numOfChan, length, sampleRate) ==
  Bytes(1179011410, 4) \o Bytes(length - 8, 4) \o Bytes(1163280727, 4)
  \o Bytes(544501094, 4) \o Bytes(16, 4) \o Bytes(1, 2) \o Bytes(numOfChan, 2)
  \o Bytes(sampleRate, 4) \o Bytes(sampleRate * 2, 4)
  \o Bytes(numOfChan * 2, 2) \o Bytes(16, 2)
  \o Bytes(1635017060, 4) \o Bytes(length - 40 - 4, 4)

\* The header audioBufferToWav writes: RIFF, fmt and the data chunk's head.
WavHeader(numOfChan, length, sampleRate) ==
  Bytes(1179011410, 4) \o Bytes(length - 8, 4) \o Bytes(1163280727, 4)
  \o Bytes(544501094, 4) \o Bytes(16, 4) \o Bytes(1, 2) \o Bytes(numOfChan, 2)
  \o Bytes(sampleRate, 4) \o Bytes(sampleRate * 2 * numOfChan, 4)
  \o Bytes(numOfChan * 2, 2) \o Bytes(16, 2)
  \o Bytes(1635017060, 4) \o Bytes(length - 40 - 4, 4)

\* A faulty variant of Writing: the loop goes on while pos <= length.
WritingToEnd(pos, length) == pos <= length

\* The test of the while loop of line 52.
Writing(pos, length) == pos < length

\* view.setInt16(pos, x, true) on a view of fixed size.
setInt16At(view, pos, x) ==
  [view EXCEPT ![pos + 1] = Bytes(x % 65536, 2)[1], ![pos + 2] = Bytes(x % 65536, 2)[2]]

\* The for loop of one frame: channel i .. numOfChan of frame offset.
RECURSIVE WriteFrame(_, _, _, _)
WriteFrame(view, channels, offset, i) ==
  IF i > Len(channels) THEN view
  ELSE WriteFrame(setInt16(view, Scaled16(ClampSample(channels[i][offset + 1]))),
                  channels, offset, i + 1)

\* The while loop: frames written until pos (the bytes written) reaches length.
RECURSIVE WriteLoop(_, _, _, _)
WriteLoop(view, channels, length, offset) ==
  IF Len(view) >= length THEN view
  ELSE WriteLoop(WriteFrame(view, channels, offset, 1), channels, length, offset + 1)

\* audioBufferToWav(buffer): the bytes of the Blob.
audioBufferToWav(buffer) ==
  WriteLoop(WavHeader(buffer.numberOfChannels,
                      buffer.length * buffer.numberOfChannels * 2 + 44,
                      buffer.sampleRate),
            buffer.channels,
            buffer.length * buffer.numberOfChannels * 2 + 44, 0)

\* ------------------------------------------------------------- inputs

\* Sample rates of an audio context.
SampleRates == {44100, 16000}
\* Math.random() of one global scope: the values it returns, in order (a
\* short sequence, repeated).
Tapes ==
  {<<Fix(1, 4), Fix(3, 4), Fix(3, 4)>>,
   <<Fix(3, 4), Fix(1, 4), Fix(1, 4), Fix(3, 4), Fix(1, 4)>>}
\* The n values Math.random() returns after pos calls.
Draws(tape, pos, n) == [i \in 1..n |-> tape[((pos + i - 1) % Len(tape)) + 1]]
\* Parameter snapshots the application holds: its defaults, and slider ends.
DefaultParams ==
  [carrierNoise |-> Fix(3, 10), size |-> Fix(2, 10), speed |-> SCALE, pitch |-> -5 * SCALE]
EdgeParams ==
  [carrierNoise |-> 0, size |-> 2 * SCALE, speed |-> 2 * SCALE, pitch |-> 24 * SCALE]
ParamSet == {DefaultParams, EdgeParams}
\* Modulator inputs of one block: no channel, an empty channel, silence, signal.
Silence == [i \in 1..BlockLen |-> 0]
Signal == [i \in 1..BlockLen |-> IF i = 1 THEN Fix(1, 2) ELSE -Fix(1, 4)]
ModulatorInputs == {<<>>, << <<>> >>, <<Silence>>, <<Signal>>}
\* Channel counts of outputs[0].
OutputChannels == {1, 2, 3}
\* Messages a port can carry: the hook's, and one of another type.
Messages ==
  [type : {"UPDATE_PARAMS"}, params : ParamSet]
    \cup {[type |-> "PING", params |-> EdgeParams]}

\* ---------------------------------------------------- offline rendering

\* The AudioBuffers decodeAudioData yields in a context of the given rate:
\* the bundled sample (mono) and a microphone recording (stereo), each one
\* render quantum long.
BufferNames == {"sample", "mic"}
AudioBufferOf(name, sampleRate) ==
  IF name = "sample"
  THEN [numberOfChannels |-> 1, length |-> BlockLen, sampleRate |-> sampleRate,
        channels |-> <<Signal>>]
  ELSE [numberOfChannels |-> 2, length |-> BlockLen, sampleRate |-> sampleRate,
        channels |-> <<[i \in 1..BlockLen |-> IF i = 1 THEN -Fix(1, 4) ELSE Fix(1, 2)],
                       Silence>>]

\* The value an AudioBufferSourceNode reads from a channel at a (fractional)
\* frame position; zero past the end.
SourceSample(channel, pos) ==
  LET At(k) == IF k <= Len(channel) THEN channel[k] ELSE 0
  IN  lerp(At(pos \div SCALE + 1), At(pos \div SCALE + 2), pos % SCALE)

\* The first quantum a source node started at 0 feeds its destination.
SourceBlock(buffer, playbackRate) ==
  [c \in 1..buffer.numberOfChannels |->
     [i \in 1..BlockLen |-> SourceSample(buffer.channels[c], (i - 1) * playbackRate)]]

\* offlineContext.startRendering() of the graph renderAndDownload builds:
\* a source of the buffer at playbackRate params.speed into a new
\* 'vocoder-processor' node (UPDATE_PARAMS with params posted to it before the
\* rendering starts) into the destination, which has the buffer's channel
\* count and length.  tape is Math.random of the offline context's scope.
OfflineRender(buffer, params, tape) ==
  LET Rendered(r) ==
        [numberOfChannels |-> buffer.numberOfChannels, length |-> buffer.length,
         sampleRate |-> buffer.sampleRate,
         channels |-> Written(r, ZeroOutput(buffer.numberOfChannels, buffer.length))]
  IN  Rendered(Run(OnMessage(NewProcessor(buffer.sampleRate, Draws(tape, 0, nunison)),
                             [type |-> "UPDATE_PARAMS", params |-> params]),
                   SourceBlock(buffer, params.speed), buffer.length,
                   Draws(tape, nunison, buffer.length)))

\* audioBufferToWav(renderedBuffer) for each buffer, snapshot and random source.
RenderedWav ==
  [name \in BufferNames, sampleRate \in SampleRates, p \in ParamSet, tape \in Tapes |->
     audioBufferToWav(OfflineRender(AudioBufferOf(name, sampleRate), p, tape))]

\* ------------------------------------------------------------------ hook
\* The hook's operations are given as functions of a record w of the hook's
\* state (React state, refs, the platform objects made so far, the async calls
\* in flight) to the record after the step.  An async call is a task: its
\* operation, the await it is suspended at (pc), the values its closure
\* captured when it was called, and its local variables.

\* Async calls in flight at one time.
MaxTasks == 2
\* Calls of the hook's operations in a run.
MaxCalls == 3
\* Changes of the params prop in a run.
MaxChanges == 1

TaskIds == 1..MaxTasks

IdleTask ==
  [op |-> "none", pc |-> "done",
   closure |-> [recordingState |-> "idle", params |-> DefaultParams, analyserNode |-> 0],
   context |-> 0, buffer |-> "null", node |-> 0, tape |-> <<>>, recorder |-> 0]

\* The values a callback created in the current render captures.
Closure(w) ==
  [recordingState |-> w.recordingState, params |-> w.params,
   analyserNode |-> w.analyserNode]

\* A call of op begins in task t.
Called(w, t, op) ==
  [w EXCEPT !.tasks[t] = [IdleTask EXCEPT !.op = op, !.pc = "run", !.closure = Closure(w)],
            !.calls = @ + 1]

\* The call of task t returns, or ends with an exception nothing catches.
Finish(w, t) == [w EXCEPT !.tasks[t] = IdleTask]

\* The call of task t is suspended at an await.
Suspend(w, t, pc) == [w EXCEPT !.tasks[t].pc = pc]

\* new AudioWorkletNode(context, 'vocoder-processor'): the node and the
\* processor constructed for it in the context's global scope.
NewWorkletNode(context, sampleRate, tape) ==
  [context |-> context,
   proc |-> NewProcessor(sampleRate, Draws(tape, 0, nunison)),
   port |-> <<>>, connected |-> FALSE]

\* node.port.postMessage({type: 'UPDATE_PARAMS', params}).
Posted(w, node, params) ==
  [w EXCEPT !.nodes[node].port = Append(@, [type |-> "UPDATE_PARAMS", params |-> params])]

\* console.error(message, ...): the message joins the log.
Logged(w, message) == [w EXCEPT !.console = Append(@, message)]

\* --- setupAudioContext

\* A faulty variant of NeedsContext: a context is made by every call.
NeedsContextAlways(w) == TRUE

\* The test of setupAudioContext: !contextRef.current.
NeedsContext(w) == w.contextRef = 0

\* new AudioContext() and contextRef.current = audioContext; task t goes on to
\* await createWorklet(audioContext).
CreateContext(w, t, state, sampleRate) ==
  Suspend([w EXCEPT !.contexts = Append(@, [state |-> state, sampleRate |-> sampleRate,
                                            module |-> "loading"]),
                    !.contextRef = Len(w.contexts) + 1,
                    !.tasks[t].context = Len(w.contexts) + 1],
          t, "addModule")

\* createWorklet resolved (workletUrlRef set, the analyser created and put in
\* state) or rejected (caught and logged).
WorkletLoaded(w, t, ok) ==
  IF ok
  THEN [w EXCEPT !.contexts[w.tasks[t].context].module = "loaded",
                 !.workletUrlRef = 1, !.analyserNode = 1]
  ELSE Logged([w EXCEPT !.contexts[w.tasks[t].context].module = "failed"],
              "Error creating audio context or worklet")

\* --- startRecording

\* After await setupAudioContext(): the guard, then await getUserMedia.
StartRecordingBody(w, t) ==
  IF w.contextRef = 0 \/ w.tasks[t].closure.recordingState = "recording"
  THEN Finish(w, t)
  ELSE Suspend([w EXCEPT !.tasks[t].context = w.contextRef], t, "getUserMedia")

\* getUserMedia resolved (a MediaRecorder made and started, state 'recording')
\* or rejected (caught).
StartRecordingTail(w, t, ok) ==
  IF ok
  THEN Finish([w EXCEPT !.recorders = Append(@, [state |-> "recording", tracks |-> "live",
                                                 context |-> w.tasks[t].context]),
                        !.mediaRecorderRef = Len(w.recorders) + 1,
                        !.recordingState = "recording"], t)
  ELSE Finish(Logged(w, "Microphone access denied or error:"), t)

\* --- stopRecording and recorder.onstop

\* stopRecording(): recorder.stop() under its guard; the stop event is queued
\* as task t.  (stop() on an inactive recorder throws.)
StopRecording(w, t) ==
  IF /\ w.mediaRecorderRef # 0
     /\ w.recordingState = "recording"
     /\ w.recorders[w.mediaRecorderRef].state = "recording"
  THEN [w EXCEPT !.recorders[w.mediaRecorderRef].state = "inactive",
                 !.tasks[t] = [IdleTask EXCEPT !.op = "onstop", !.pc = "stop",
                                               !.closure = Closure(w),
                                               !.recorder = w.mediaRecorderRef,
                                               !.context = w.recorders[w.mediaRecorderRef].context],
                 !.calls = @ + 1]
  ELSE [w EXCEPT !.calls = @ + 1]

\* onstop runs: the tracks stopped, then await blob.arrayBuffer() and
\* context.decodeAudioData.
RecorderStopped(w, t) ==
  Suspend([w EXCEPT !.recorders[w.tasks[t].recorder].tracks = "stopped"], t, "decode")

\* --- togglePlayback

\* The test of line 327: !vocoderNodeRef.current.
NeedsVocoderNode(w) == w.vocoderNodeRef = 0

\* A faulty variant of DisconnectSource: the old source is left connected.
DisconnectSourceSkipped(w) == w

\* Lines 324-326: sourceNodeRef.current.disconnect(), if there is one.
DisconnectSource(w) ==
  IF w.sourceNodeRef # 0
  THEN [w EXCEPT !.sources[w.sourceNodeRef].connected = FALSE]
  ELSE w

\* Lines 324-341, from the disconnect of the old source on.  The node's
\* constructor throws on a context without the processor registered, and
\* connect(analyserNode!) on a null analyser; either ends the call there.
StartPlayback(w0, t, tape) ==
  LET c == w0.tasks[t].closure
      ctx == w0.tasks[t].context
      Play(w) ==
        Finish([w EXCEPT !.sources = Append(@, [buffer |-> w.recordedBufferRef,
                                                connected |-> TRUE, stopped |-> FALSE,
                                                playbackRate |-> c.params.speed]),
                         !.sourceNodeRef = Len(w.sources) + 1,
                         !.recordingState = "playing"], t)
      Connect(w) ==
        IF c.analyserNode = 0 THEN Finish(w, t)
        ELSE Play(Posted([w EXCEPT !.nodes[w.vocoderNodeRef].connected = TRUE],
                         w.vocoderNodeRef, c.params))
      Node(w) ==
        IF ~NeedsVocoderNode(w) THEN Play(w)
        ELSE IF w.contexts[ctx].module # "loaded" THEN Finish(w, t)
        ELSE Connect([w EXCEPT !.nodes = Append(@, NewWorkletNode("live",
                                                   w.contexts[ctx].sampleRate, tape)),
                               !.vocoderNodeRef = Len(w.nodes) + 1])
  IN  Node(DisconnectSource(w0))

\* After await setupAudioContext(): the branches on recordingState.
TogglePlaybackBody(w0, t, tape) ==
  LET c == w0.tasks[t].closure
      Branch(w, ctx) ==
        IF ctx = 0 THEN Finish(w, t)
        ELSE IF c.recordingState = "playing"
        THEN Finish([w EXCEPT !.contexts[ctx].state = "suspended",
                              !.recordingState = "paused"], t)
        ELSE IF c.recordingState = "paused"
        THEN Finish([w EXCEPT !.contexts[ctx].state = "running",
                              !.recordingState = "playing"], t)
        ELSE IF c.recordingState = "recorded" /\ w.recordedBufferRef # "null"
        THEN IF w.contexts[ctx].state = "suspended"
             THEN Suspend(w, t, "resume")
             ELSE StartPlayback(w, t, tape)
        ELSE Finish(w, t)
  IN  Branch([w0 EXCEPT !.tasks[t].context = w0.contextRef], w0.contextRef)

\* await context.resume() resolved.
TogglePlaybackResumed(w, t, tape) ==
  StartPlayback([w EXCEPT !.contexts[w.tasks[t].context].state = "running"], t, tape)

\* --- loadSample and resetRecording

\* loadSample after await resetRecording(): the context resumed if suspended,
\* then the awaits of fetch, arrayBuffer and decodeAudioData.
LoadSampleTail(w, t) ==
  Suspend([w EXCEPT !.contexts[w.tasks[t].context].state = "running"], t, "decode")

\* The end of resetRecording: buffer dropped, state 'idle'; the call returns,
\* to loadSample when that called it.
ResetRecordingTail(w0, t) ==
  LET After(w) == IF w.tasks[t].op = "loadSample" THEN LoadSampleTail(w, t)
                  ELSE Finish(w, t)
  IN  After([w0 EXCEPT !.recordedBufferRef = "null", !.recordingState = "idle"])

\* resetRecording up to its await: the source stopped, disconnected and
\* dropped, and the context suspended if playing or paused and running.
ResetRecordingBody(w0, t) ==
  LET c == w0.tasks[t].closure
      Rest(w) ==
        IF /\ c.recordingState \in {"playing", "paused"}
           /\ w.contextRef # 0
           /\ w.contexts[w.contextRef].state = "running"
        THEN Suspend(w, t, "suspend")
        ELSE ResetRecordingTail(w, t)
  IN  Rest(IF w0.sourceNodeRef # 0
           THEN [w0 EXCEPT !.sources[w0.sourceNodeRef].stopped = TRUE,
                           !.sources[w0.sourceNodeRef].connected = FALSE,
                           !.sourceNodeRef = 0]
           ELSE w0)

\* await contextRef.current.suspend() resolved.
ResetRecordingSuspended(w, t) ==
  ResetRecordingTail([w EXCEPT !.contexts[w.contextRef].state = "suspended"], t)

\* loadSample after await setupAudioContext().
LoadSampleBody(w, t) ==
  IF w.contextRef = 0 THEN Finish(w, t)
  ELSE ResetRecordingBody([w EXCEPT !.tasks[t].context = w.contextRef], t)

\* decodeAudioData resolved or rejected, in loadSample (the rejection caught:
\* state 'idle') and in onstop (the rejection uncaught).
Decoded(w, t, ok) ==
  IF ok
  THEN Finish([w EXCEPT !.recordedBufferRef =
                          IF w.tasks[t].op = "loadSample" THEN "sample" ELSE "mic",
                        !.recordingState = "recorded"], t)
  ELSE IF w.tasks[t].op = "loadSample"
  THEN Finish(Logged([w EXCEPT !.recordingState = "idle"],
                     "Failed to load or decode sample audio:"), t)
  ELSE Finish(w, t)

\* --- renderAndDownload

\* The call of task t ends with an exception: handleDownload, which awaits
\* it, catches and logs it.
RenderFailed(w, t) == Finish(Logged(w, "Failed to render and download audio:"), t)

\* renderAndDownload after await setupAudioContext(): the worklet guard, the
\* buffer read from the ref (a null one throws at its first use), the offline
\* context made, then await offlineContext.audioWorklet.addModule.
RenderBody(w, t) ==
  IF w.workletUrlRef = 0
  THEN Finish(Logged(w, "Worklet is not ready for offline rendering."), t)
  ELSE IF w.recordedBufferRef = "null" THEN RenderFailed(w, t)
  ELSE Suspend([w EXCEPT !.tasks[t].buffer = w.recordedBufferRef,
                         !.tasks[t].context = w.contextRef], t, "offlineModule")

\* A faulty variant of RenderNode: the live node is used when there is one.
RenderNodeShared(w, sampleRate, tape) ==
  IF w.vocoderNodeRef # 0 THEN [w |-> w, node |-> w.vocoderNodeRef]
  ELSE [w |-> [w EXCEPT !.nodes = Append(@, NewWorkletNode("offline", sampleRate, tape))],
        node |-> Len(w.nodes) + 1]

\* Line 406: new AudioWorkletNode(offlineContext, 'vocoder-processor').
RenderNode(w, sampleRate, tape) ==
  [w |-> [w EXCEPT !.nodes = Append(@, NewWorkletNode("offline", sampleRate, tape))],
   node |-> Len(w.nodes) + 1]

\* The offline addModule resolved (source and node made, the snapshot posted,
\* the graph connected and started, then await startRendering()) or rejected.
RenderStart(w0, t, ok, tape) ==
  LET c == w0.tasks[t].closure
      Graph(r) ==
        Suspend(Posted([r.w EXCEPT !.nodes[r.node].connected = TRUE,
                                   !.tasks[t].node = r.node,
                                   !.tasks[t].tape = tape],
                       r.node, c.params),
                t, "rendering")
  IN  IF ok THEN Graph(RenderNode(w0, w0.contexts[w0.tasks[t].context].sampleRate, tape))
      ELSE RenderFailed(w0, t)

\* Lines 415-422: the rendered buffer encoded and handed to the browser as a
\* download.  The download is recorded by what its rendering was made from;
\* DownloadedWav gives its bytes.
Download(w, t) ==
  [w EXCEPT !.downloads =
     Append(@, [buffer |-> w.tasks[t].buffer,
                sampleRate |-> w.contexts[w.tasks[t].context].sampleRate,
                params |-> w.tasks[t].closure.params,
                node |-> w.tasks[t].node,
                tape |-> w.tasks[t].tape])]

\* The bytes of a download: audioBufferToWav of what startRendering gave.
DownloadedWav(d) == RenderedWav[d.buffer, d.sampleRate, d.params, d.tape]

\* A faulty variant of RenderDone: the download is triggered whether the
\* rendering resolved or not.
RenderDoneFinally(w, t, ok) ==
  IF ok THEN Finish(Download(w, t), t) ELSE RenderFailed(Download(w, t), t)

\* startRendering() resolved (the WAV encoded and downloaded) or rejected.
RenderDone(w, t, ok) ==
  IF ok THEN Finish(Download(w, t), t) ELSE RenderFailed(w, t)

\* --- the continuation of a call after await setupAudioContext()

AfterSetup(w, t, tape) ==
  CASE w.tasks[t].op = "startRecording" -> StartRecordingBody(w, t)
    [] w.tasks[t].op = "togglePlayback" -> TogglePlaybackBody(w, t, tape)
    [] w.tasks[t].op = "loadSample" -> LoadSampleBody(w, t)
    [] OTHER -> RenderBody(w, t)

\* setupAudioContext called by task t: a context made (made tells whether
\* new AudioContext() succeeds) and the module awaited, or the call returning
\* contextRef.current at once.
setupAudioContext(w, t, made, state, sampleRate, tape) ==
  IF ~NeedsContext(w) THEN AfterSetup(w, t, tape)
  ELSE IF made THEN CreateContext(w, t, state, sampleRate)
  ELSE AfterSetup(Logged(w, "Error creating audio context or worklet"), t, tape)

\* --- the params effect

\* The effect on [params]: the snapshot posted to the live node, the rate set
\* on the playing source.
ParamsEffect(w0) ==
  LET Rate(w) ==
        IF w.sourceNodeRef # 0
        THEN [w EXCEPT !.sources[w.sourceNodeRef].playbackRate = w.params.speed]
        ELSE w
  IN  Rate(IF w0.vocoderNodeRef # 0 THEN Posted(w0, w0.vocoderNodeRef, w0.params)
           ELSE w0)

\* -------------------------------------------------------------- state

VARIABLES
  proc,       \* the VocoderProcessor of the audio thread
  prng,       \* Math.random of its global scope: the tape, and the calls made
  call,       \* what Run gave for the last process call
  port,       \* messages posted to its port and not yet handled
  output,     \* outputs[0] as the last process call left it, by channel count
  ret,        \* how the last process call ended
  modulator,  \* inputs[0] of the last process call
  used,       \* the params each sample of the last process call read
  before,     \* the processor before the last process call or message
  delivered,  \* the params of the UPDATE_PARAMS messages handled, in order
  step,       \* what the last step was
  blocks,     \* process calls so far
  posts       \* messages posted so far

engineVars == <<proc, prng, call, port, output, ret, modulator, used, before,
                delivered, step, blocks, posts>>

VARIABLES
  recordingState,     \* the hook's recordingState
  analyserNode,       \* the hook's analyserNode state (0: null)
  params,             \* the params prop
  contextRef,         \* the refs: an index into the objects below (0: null)
  vocoderNodeRef,
  sourceNodeRef,
  mediaRecorderRef,
  workletUrlRef,      \* 1 once the worklet's URL is stored
  recordedBufferRef,  \* the name of the decoded buffer ("null": none)
  contexts,           \* the AudioContexts created
  nodes,              \* the AudioWorkletNodes constructed, live and offline
  sources,            \* the buffer sources created on the live context
  recorders,          \* the MediaRecorders created
  tasks,              \* the async calls in flight
  downloads,          \* the WAV downloads triggered
  console,            \* the messages of console.error, in order
  calls,              \* calls of the hook's operations so far
  changes             \* changes of params so far

hookVars == <<recordingState, analyserNode, params, contextRef, vocoderNodeRef,
              sourceNodeRef, mediaRecorderRef, workletUrlRef, recordedBufferRef,
              contexts, nodes, sources, recorders, tasks, downloads, console,
              calls, changes>>

\* A component of the worklet, or the encoder, driven on its own: the
\* component, what it was fed and what it gave (None where the engine or the
\* hook is the subject).
VARIABLE bench

vars == <<engineVars, hookVars, bench>>

None == [none |-> TRUE]

\* The hook's state as one record, and the step that leads to a given one.
World ==
  [recordingState |-> recordingState, analyserNode |-> analyserNode,
   params |-> params, contextRef |-> contextRef, vocoderNodeRef |-> vocoderNodeRef,
   sourceNodeRef |-> sourceNodeRef, mediaRecorderRef |-> mediaRecorderRef,
   workletUrlRef |-> workletUrlRef, recordedBufferRef |-> recordedBufferRef,
   contexts |-> contexts, nodes |-> nodes, sources |-> sources,
   recorders |-> recorders, tasks |-> tasks, downloads |-> downloads,
   console |-> console,
   calls |-> calls, changes |-> changes]

Apply(w) ==
  /\ recordingState' = w.recordingState
  /\ analyserNode' = w.analyserNode
  /\ params' = w.params
  /\ contextRef' = w.contextRef
  /\ vocoderNodeRef' = w.vocoderNodeRef
  /\ sourceNodeRef' = w.sourceNodeRef
  /\ mediaRecorderRef' = w.mediaRecorderRef
  /\ workletUrlRef' = w.workletUrlRef
  /\ recordedBufferRef' = w.recordedBufferRef
  /\ contexts' = w.contexts
  /\ nodes' = w.nodes
  /\ sources' = w.sources
  /\ recorders' = w.recorders
  /\ tasks' = w.tasks
  /\ downloads' = w.downloads
  /\ console' = w.console
  /\ calls' = w.calls
  /\ changes' = w.changes
  /\ UNCHANGED <<engineVars, bench>>

\* The hook as mounted: the initial state and refs of useVocoderAudio, under
\* the application's default params.
HookMounted ==
  /\ recordingState = "idle"
  /\ analyserNode = 0
  /\ params = DefaultParams
  /\ contextRef = 0
  /\ vocoderNodeRef = 0
  /\ sourceNodeRef = 0
  /\ mediaRecorderRef = 0
  /\ workletUrlRef = 0
  /\ recordedBufferRef = "null"
  /\ contexts = <<>>
  /\ nodes = <<>>
  /\ sources = <<>>
  /\ recorders = <<>>
  /\ tasks = [t \in TaskIds |-> IdleTask]
  /\ downloads = <<>>
  /\ console = <<>>
  /\ calls = 0
  /\ changes = 0

\* No process call and no message yet.
EngineQuiet ==
  /\ call = None
  /\ port = <<>>
  /\ output = <<>>
  /\ ret = "none"
  /\ modulator = <<>>
  /\ used = <<>>
  /\ before = None
  /\ delivered = <<>>
  /\ step = "new"
  /\ blocks = 0
  /\ posts = 0

\* A worklet node is constructed: the processor of a context of some sample
\* rate, in a global scope with some random source.
Init ==
  /\ \E sampleRate \in SampleRates, tape \in Tapes :
       /\ proc = NewProcessor(sampleRate, Draws(tape, 0, nunison))
       /\ prng = [tape |-> tape, pos |-> nunison]
  /\ EngineQuiet
  /\ HookMounted
  /\ bench = None

\* The main thread posts a message to the node's port.
PostMessage ==
  /\ posts < MaxPosts
  /\ \E data \in Messages : port' = Append(port, data)
  /\ posts' = posts + 1
  /\ step' = "post"
  /\ UNCHANGED <<proc, prng, call, output, ret, modulator, used, before,
                 delivered, blocks>>
  /\ UNCHANGED <<hookVars, bench>>

\* The audio thread handles the oldest message of the port.
HandleMessage ==
  /\ port # <<>>
  /\ proc' = OnMessage(proc, Head(port))
  /\ port' = Tail(port)
  /\ before' = proc
  /\ delivered' = IF Head(port).type = "UPDATE_PARAMS"
                  THEN Append(delivered, Head(port).params)
                  ELSE delivered
  /\ step' = "message"
  /\ UNCHANGED <<prng, call, output, ret, modulator, used, blocks, posts>>
  /\ UNCHANGED <<hookVars, bench>>

\* The audio thread renders one quantum: process is called with the block's
\* modulator input and zero-filled output channels.  output' holds what the
\* call leaves in outputs[0] for each channel count it may be handed.
ProcessBlock ==
  /\ blocks < MaxBlocks
  /\ \E modulatorInput \in ModulatorInputs :
       /\ call' = Run(proc, modulatorInput, BlockLen,
                      Draws(prng.tape, prng.pos, BlockLen))
       /\ modulator' = modulatorInput
  /\ proc' = call'.proc
  /\ prng' = [prng EXCEPT !.pos = @ + Len(call'.finals)]
  /\ ret' = call'.ret
  /\ used' = call'.used
  /\ output' = [channels \in OutputChannels |->
                  Written(call', ZeroOutput(channels, BlockLen))]
  /\ before' = proc
  /\ step' = "process"
  /\ blocks' = blocks + 1
  /\ UNCHANGED <<port, delivered, posts>>
  /\ UNCHANGED <<hookVars, bench>>

Next == PostMessage \/ HandleMessage \/ ProcessBlock

Spec == Init /\ [][Next]_vars

\* ------------------------------------------------------- the hook's steps

HookInit ==
  /\ proc = None
  /\ prng = None
  /\ EngineQuiet
  /\ HookMounted
  /\ bench = None

\* The lowest task not in use.
HasFreeTask == \E t \in TaskIds : tasks[t].op = "none"
FreeTask ==
  CHOOSE t \in TaskIds :
    tasks[t].op = "none" /\ \A u \in 1..(t - 1) : tasks[u].op # "none"

ContextStates == {"running", "suspended"}

\* What new AudioContext() may give: whether it succeeds, and the state and
\* sample rate of the context.  With a context in place none is made, and
\* one case stands for all.
ContextsToMake ==
  IF NeedsContext(World)
  THEN [made : BOOLEAN, state : ContextStates, sampleRate : SampleRates]
  ELSE {[made |-> FALSE, state |-> "running", sampleRate |-> 44100]}

\* A call of an operation that begins with await setupAudioContext().
CallWithSetup(op) ==
  /\ calls < MaxCalls
  /\ HasFreeTask
  /\ \E c \in ContextsToMake, tape \in Tapes :
       Apply(setupAudioContext(Called(World, FreeTask, op), FreeTask, c.made, c.state,
                               c.sampleRate, tape))

startRecording == CallWithSetup("startRecording")

togglePlayback == CallWithSetup("togglePlayback")

loadSample == CallWithSetup("loadSample")

\* renderAndDownload() called in world w, in task t: the buffer guard, then
\* await setupAudioContext().
renderAndDownload(w, t, made, state, sampleRate, tape) ==
  IF w.recordedBufferRef = "null"
  THEN Logged([w EXCEPT !.calls = @ + 1], "No recorded audio available to download.")
  ELSE setupAudioContext(Called(w, t, "renderAndDownload"), t, made, state,
                         sampleRate, tape)

\* The lowest task not in use in world w.
FreeTaskIn(w) ==
  CHOOSE t \in TaskIds :
    w.tasks[t].op = "none" /\ \A u \in 1..(t - 1) : w.tasks[u].op # "none"

\* The application's download handler: togglePlayback() called (and not
\* awaited) when playing, then renderAndDownload() awaited in a try block.
\* (isRendering, which only the button reads, is left out.)
handleDownload ==
  /\ calls < MaxCalls
  /\ HasFreeTask
  /\ \E c \in ContextsToMake, tape \in Tapes :
       LET Render(w) ==
             /\ \E t \in TaskIds : w.tasks[t].op = "none"
             /\ Apply([renderAndDownload(w, FreeTaskIn(w), c.made, c.state,
                                         c.sampleRate, tape)
                         EXCEPT !.calls = calls + 1])
       IN  Render(IF recordingState = "playing"
                  THEN setupAudioContext(Called(World, FreeTask, "togglePlayback"),
                                         FreeTask, c.made, c.state, c.sampleRate, tape)
                  ELSE World)

stopRecording ==
  /\ calls < MaxCalls
  /\ HasFreeTask
  /\ Apply(StopRecording(World, FreeTask))

resetRecording ==
  /\ calls < MaxCalls
  /\ HasFreeTask
  /\ Apply(ResetRecordingBody(Called(World, FreeTask, "resetRecording"), FreeTask))

\* The application changes params; the effect on [params] runs.
ChangeParams ==
  /\ changes < MaxChanges
  /\ \E p \in ParamSet \ {params} :
       Apply(ParamsEffect([World EXCEPT !.params = p, !.changes = @ + 1]))

\* createWorklet settles in setupAudioContext, which returns to its caller.
ModuleLoaded ==
  \E t \in TaskIds :
    /\ tasks[t].pc = "addModule"
    /\ \E ok \in BOOLEAN, tape \in Tapes :
         Apply(AfterSetup(WorkletLoaded(World, t, ok), t, tape))

\* getUserMedia settles.
MicrophoneAnswered ==
  \E t \in TaskIds :
    /\ tasks[t].pc = "getUserMedia"
    /\ \E ok \in BOOLEAN : Apply(StartRecordingTail(World, t, ok))

\* The recorder's stop event is dispatched.
RecorderStop ==
  \E t \in TaskIds :
    /\ tasks[t].pc = "stop"
    /\ Apply(RecorderStopped(World, t))

\* decodeAudioData settles.
DecodeDone ==
  \E t \in TaskIds :
    /\ tasks[t].pc = "decode"
    /\ \E ok \in BOOLEAN : Apply(Decoded(World, t, ok))

\* context.resume() resolves in togglePlayback.
ContextResumed ==
  \E t \in TaskIds :
    /\ tasks[t].pc = "resume"
    /\ \E tape \in Tapes : Apply(TogglePlaybackResumed(World, t, tape))

\* context.suspend() resolves in resetRecording.
ContextSuspended ==
  \E t \in TaskIds :
    /\ tasks[t].pc = "suspend"
    /\ Apply(ResetRecordingSuspended(World, t))

\* The offline context's addModule settles.
OfflineModuleLoaded ==
  \E t \in TaskIds :
    /\ tasks[t].pc = "offlineModule"
    /\ \E ok \in BOOLEAN, tape \in Tapes : Apply(RenderStart(World, t, ok, tape))

\* startRendering() settles.
RenderingDone ==
  \E t \in TaskIds :
    /\ tasks[t].pc = "rendering"
    /\ \E ok \in BOOLEAN : Apply(RenderDone(World, t, ok))

\* The audio thread of the live context handles the oldest message of a
\* node's port.
DeliverMessage ==
  /\ \E n \in 1..Len(nodes) :
       /\ nodes[n].context = "live"
       /\ nodes[n].port # <<>>
       /\ nodes' = [nodes EXCEPT ![n].proc = OnMessage(@, nodes[n].port[1]),
                                 ![n].port = Tail(@)]
  /\ UNCHANGED <<recordingState, analyserNode, params, contextRef, vocoderNodeRef,
                 sourceNodeRef, mediaRecorderRef, workletUrlRef, recordedBufferRef,
                 contexts, sources, recorders, tasks, downloads, console, calls,
                 changes>>
  /\ UNCHANGED <<engineVars, bench>>

HookNext ==
  \/ startRecording
  \/ stopRecording
  \/ togglePlayback
  \/ resetRecording
  \/ loadSample
  \/ handleDownload
  \/ ChangeParams
  \/ ModuleLoaded
  \/ MicrophoneAnswered
  \/ RecorderStop
  \/ DecodeDone
  \/ ContextResumed
  \/ ContextSuspended
  \/ OfflineModuleLoaded
  \/ RenderingDone
  \/ DeliverMessage

HookSpec == HookInit /\ [][HookNext]_vars

\* --- recording on its own

\* The steps of a user who only records: startRecording and stopRecording,
\* and what they await.
RecordingNext ==
  \/ startRecording
  \/ stopRecording
  \/ ModuleLoaded
  \/ MicrophoneAnswered
  \/ RecorderStop
  \/ DecodeDone

\* Every promise awaited settles and every event queued is dispatched: the
\* continuations are taken when they can be.  The calls are the user's, and
\* need not come.
RecordingSpec ==
  /\ HookInit
  /\ [][RecordingNext]_vars
  /\ WF_vars(ModuleLoaded)
  /\ WF_vars(MicrophoneAnswered)
  /\ WF_vars(RecorderStop)
  /\ WF_vars(DecodeDone)

\* --- a session that begins with a recording made

\* The hook's state as mounted, as a record.
MountedWorld ==
  [recordingState |-> "idle", analyserNode |-> 0, params |-> DefaultParams,
   contextRef |-> 0, vocoderNodeRef |-> 0, sourceNodeRef |-> 0,
   mediaRecorderRef |-> 0, workletUrlRef |-> 0, recordedBufferRef |-> "null",
   contexts |-> <<>>, nodes |-> <<>>, sources |-> <<>>, recorders |-> <<>>,
   tasks |-> [t \in TaskIds |-> IdleTask], downloads |-> <<>>, console |-> <<>>,
   calls |-> 0, changes |-> 0]

\* The hook after a first recording: startRecording() on the mounted hook
\* (the context made in the given state, the module loaded, the microphone
\* granted), then stopRecording() and the decoding done.
RecordingMade(state, sampleRate) ==
  LET tape == CHOOSE x \in Tapes : TRUE
      Stop(w) == Decoded(RecorderStopped(StopRecording(w, 1), 1), 1, TRUE)
      Start(w) == StartRecordingTail(AfterSetup(WorkletLoaded(w, 1, TRUE), 1, tape), 1, TRUE)
  IN  Stop(Start(setupAudioContext(Called(MountedWorld, 1, "startRecording"), 1,
                                   TRUE, state, sampleRate, tape)))

\* The variables hold the world w.
Holds(w) ==
  /\ recordingState = w.recordingState
  /\ analyserNode = w.analyserNode
  /\ params = w.params
  /\ contextRef = w.contextRef
  /\ vocoderNodeRef = w.vocoderNodeRef
  /\ sourceNodeRef = w.sourceNodeRef
  /\ mediaRecorderRef = w.mediaRecorderRef
  /\ workletUrlRef = w.workletUrlRef
  /\ recordedBufferRef = w.recordedBufferRef
  /\ contexts = w.contexts
  /\ nodes = w.nodes
  /\ sources = w.sources
  /\ recorders = w.recorders
  /\ tasks = w.tasks
  /\ downloads = w.downloads
  /\ console = w.console
  /\ calls = w.calls
  /\ changes = w.changes

\* The hook as mounted, or with a first recording made on a context that
\* began, and still is, suspended; calls counts the calls made from there on.
SessionInit ==
  /\ proc = None
  /\ prng = None
  /\ EngineQuiet
  /\ bench = None
  /\ \/ Holds(MountedWorld)
     \/ \E sampleRate \in SampleRates :
          Holds([RecordingMade("suspended", sampleRate) EXCEPT !.calls = 0])

SessionSpec == SessionInit /\ [][HookNext]_vars

\* ------------------------------------------------- properties: engine

Last(seq) == seq[Len(seq)]

AllZero(channels) ==
  \A c \in 1..Len(channels) : \A i \in 1..Len(channels[c]) : channels[c][i] = 0

\* The modulator input of the last call has no channel, or an empty first one.
NoModulator == Len(modulator) = 0 \/ Len(modulator[1]) = 0

\* The modulator input of the last call is a block of zeros.
ZeroModulator ==
  /\ ~NoModulator
  /\ \A i \in 1..Len(modulator[1]) : modulator[1][i] = 0

\* Every modulator-side integrator and envelope level of a processor is zero.
ModulatorPathAtRest(p) ==
  \A b \in 1..Len(p.bands) :
    /\ p.bands[b].envelopeFollower.y1 = 0
    /\ \A i \in 1..p.bands[b].modFilter.num :
         /\ p.bands[b].modFilter.stages[i].ic1eq = 0
         /\ p.bands[b].modFilter.stages[i].ic2eq = 0

\* The integrators, envelope levels and oscillator phases of a processor.
DspState(p) ==
  [stages |-> [b \in 1..Len(p.bands) |->
                 <<p.bands[b].modFilter.stages, p.bands[b].carrierFilter.stages>>],
   levels |-> [b \in 1..Len(p.bands) |-> p.bands[b].envelopeFollower.y1],
   phases |-> [i \in 1..Len(p.carrierSynth.ops) |-> p.carrierSynth.ops[i].p]]

\* C2: a process call whose modulator input has no channel, or an empty first
\* channel, returns true and leaves every sample of every output channel 0,
\* whatever the engine's state and parameters.
C2_NoModulatorGivesSilence ==
  (step = "process" /\ NoModulator) =>
    /\ ret = "true"
    /\ \A channels \in OutputChannels : AllZero(output[channels])

\* Such a call on an engine that has run a signal block under the slider-end
\* parameters, with three output channels.
C2_Witness ==
  /\ step = "process" /\ blocks = 2
  /\ modulator = << <<>> >>
  /\ before.params = EdgeParams
  /\ before.bands[1].envelopeFollower.y1 # 0
  /\ ret = "true" /\ AllZero(output[3])

ValidCutoff(fc) == 0 < fc /\ fc < SCALE \div 2

\* C4: the cutoff a process call sets on the filters of every band, and runs
\* them with, lies in (0, 0.5).
C4_CutoffInRange ==
  (step = "process" /\ ~NoModulator) =>
    \A b \in 1..Len(proc.bands) :
      /\ ValidCutoff(proc.bands[b].modFilter.fc)
      /\ ValidCutoff(proc.bands[b].carrierFilter.fc)

\* C5: every sample of a process call reads the same parameter snapshot, the
\* one of the last UPDATE_PARAMS message handled before the call (the
\* constructor's while none has been handled).
C5_BlockUsesLastDelivered ==
  step = "process" =>
    \A i \in 1..Len(used) :
      used[i] = IF delivered = <<>> THEN ConstructorParams ELSE Last(delivered)

\* A block processed after two different snapshots were handled.
C5_Witness ==
  /\ step = "process"
  /\ Len(delivered) = 2 /\ delivered[1] # delivered[2]
  /\ Len(used) = BlockLen /\ used[1] = delivered[2] /\ used[BlockLen] = delivered[2]

\* C6: handling an UPDATE_PARAMS message replaces params by the message's and
\* leaves integrators, envelope levels and phases as they were; handling a
\* message of another type leaves the processor as it was.
C6_MessageFrame ==
  [][step' = "message" =>
       IF Head(port).type = "UPDATE_PARAMS"
       THEN /\ proc'.params = Head(port).params
            /\ DspState(proc') = DspState(proc)
       ELSE proc' = proc]_vars

\* A snapshot handled by an engine whose filters and envelopes are in motion.
C6_Witness ==
  /\ step = "message"
  /\ delivered # <<>> /\ proc.params = Last(delivered)
  /\ proc.params # before.params
  /\ before.bands[1].envelopeFollower.y1 # 0
  /\ DspState(proc) = DspState(before)

\* The coefficients of a filter.
Coeffs(f) == <<f.g, f.k, f.a1, f.a2, f.a3>>

\* A process call that made n calls of f0.process (all with the fc of f1, the
\* filter afterwards) computed the coefficients once if f0's cache did not
\* hold (fc, q), and not at all, leaving them as they were, if it did.
Memoized(f0, f1) ==
  IF f0.cfc # f1.fc \/ f0.cq # f0.q
  THEN f1.computed = f0.computed + 1
  ELSE f1.computed = f0.computed /\ Coeffs(f1) = Coeffs(f0)

\* C7: over the SVF.process calls of a block, which all run with the same fc
\* and q, a filter computes its coefficients only if its cache holds another
\* (fc, q), and then in the first call only.
C7_CoefficientsMemoized ==
  (step = "process" /\ ~NoModulator) =>
    \A b \in 1..Len(proc.bands) :
      /\ Memoized(before.bands[b].modFilter, proc.bands[b].modFilter)
      /\ Memoized(before.bands[b].carrierFilter, proc.bands[b].carrierFilter)

\* Two blocks under the same parameters: 2 * BlockLen calls of each filter's
\* process, one computation.
C7_Witness ==
  /\ step = "process" /\ blocks = 2
  /\ proc.carrierSynth.ticks = 2 * BlockLen
  /\ before.params = proc.params
  /\ before.bands[1].modFilter.computed = 1
  /\ proc.bands[1].modFilter.computed = 1

\* C8: after a process call with modulator input all channels of outputs[0]
\* hold the same samples, for every channel count.
C8_AllChannelsAlike ==
  (step = "process" /\ ~NoModulator) =>
    \A channels \in OutputChannels :
      \A c \in 1..channels : output[channels][c] = output[channels][1]

\* --------------------------------------------------- properties: hook

\* C1: two downloads rendered from the same recorded buffer under the same
\* parameter snapshot hold the same bytes.
C1_RendersAlike ==
  \A i, j \in 1..Len(downloads) :
    (/\ i < j
     /\ downloads[i].buffer = downloads[j].buffer
     /\ downloads[i].sampleRate = downloads[j].sampleRate
     /\ downloads[i].params = downloads[j].params)
      => DownloadedWav(downloads[i]) = DownloadedWav(downloads[j])

\* The live AudioWorkletNodes constructed so far.
LiveNodes == {n \in 1..Len(nodes) : nodes[n].context = "live"}

\* The renderAndDownload calls that have built their graph and await the
\* rendering.
Rendering ==
  {t \in TaskIds : tasks[t].op = "renderAndDownload" /\ tasks[t].pc = "rendering"}

\* A processor as its constructor leaves it.
Unused(p) ==
  /\ p.params = ConstructorParams
  /\ p.carrierSynth.ticks = 0
  /\ ModulatorPathAtRest(p)
  /\ \A b \in 1..Len(p.bands) : \A i \in 1..p.bands[b].carrierFilter.num :
       /\ p.bands[b].carrierFilter.stages[i].ic1eq = 0
       /\ p.bands[b].carrierFilter.stages[i].ic2eq = 0

\* A node of an offline context that is not the live session's, with a
\* processor nothing has run.
OwnOfflineNode(n) ==
  /\ n # vocoderNodeRef
  /\ nodes[n].context = "offline"
  /\ Unused(nodes[n].proc)

\* Every render in flight, and every render that ended in a download, has a
\* node of its own.
RenderNodesApart ==
  /\ \A t \in Rendering :
       /\ OwnOfflineNode(tasks[t].node)
       /\ \A u \in Rendering \ {t} : tasks[u].node # tasks[t].node
       /\ \A i \in 1..Len(downloads) : downloads[i].node # tasks[t].node
  /\ \A i \in 1..Len(downloads) :
       /\ OwnOfflineNode(downloads[i].node)
       /\ \A j \in 1..Len(downloads) : j # i => downloads[j].node # downloads[i].node

\* A step of a renderAndDownload call: its start, one of its continuations,
\* or its end.
RenderStep ==
  \E t \in TaskIds :
    /\ tasks'[t] # tasks[t]
    /\ tasks[t].op = "renderAndDownload" \/ tasks'[t].op = "renderAndDownload"

\* C9: every render builds a node of its own on its offline context, with a
\* newly constructed processor, which no other render and not the live
\* session uses; and no step of a render changes the live node: its
\* processor's parameters and DSP state and its port stay as they were.
C9_RenderUsesOwnNode ==
  /\ []RenderNodesApart
  /\ [][RenderStep =>
          /\ vocoderNodeRef' = vocoderNodeRef
          /\ vocoderNodeRef # 0 => nodes'[vocoderNodeRef] = nodes[vocoderNodeRef]]_vars

\* A download rendered while the live node exists and has taken a snapshot.
C9_Witness ==
  /\ Len(downloads) = 1
  /\ vocoderNodeRef # 0
  /\ nodes[vocoderNodeRef].port = <<>>
  /\ nodes[vocoderNodeRef].proc.params # ConstructorParams
  /\ downloads[1].node # vocoderNodeRef
  /\ nodes[downloads[1].node].context = "offline"

Speeds == {SCALE \div 2, 3 * SCALE}

\* The processor p after an UPDATE_PARAMS whose snapshot is p's own but for
\* the speed.
WithSpeed(p, s) ==
  OnMessage(p, [type |-> "UPDATE_PARAMS", params |-> [p.params EXCEPT !.speed = s]])

\* The random values the last process call drew.
LastDraws == Draws(prng.tape, prng.pos - Len(call.finals), Len(call.finals))

\* The run r gave the samples and left the DSP state of the last call.
SameAsCall(r) ==
  /\ r.finals = call.finals
  /\ DspState(r.proc) = DspState(proc)

\* C11: a process call on the engine as it was before the last call, but with
\* another speed in its parameters, given the same modulator block and the
\* same random draws, yields the same samples and the same DSP state.
C11_SpeedLeavesEngineAlone ==
  (step = "process" /\ ~NoModulator) =>
    \A s \in Speeds :
      SameAsCall(Run(WithSpeed(before, s), modulator, BlockLen, LastDraws))

\* A second signal block under the slider-end parameters (speed 2), with
\* nonzero output.
C11_Witness ==
  /\ step = "process" /\ blocks = 2
  /\ modulator = <<Signal>>
  /\ before.params = EdgeParams
  /\ before.params.speed \notin Speeds
  /\ call.finals[BlockLen] # 0

\* The last call's block cut after its first k frames and run as two calls,
\* the second on the processor the first left: the samples of the two calls
\* in a row are the last call's, and so is the processor at the end.
SplitAgrees(k) ==
  LET Joined(r1, r2) ==
        /\ r1.ret = "true" /\ r2.ret = "true"
        /\ r1.finals \o r2.finals = call.finals
        /\ r2.proc = proc
      Second(r1) ==
        Joined(r1, Run(r1.proc, <<SubSeq(modulator[1], k + 1, BlockLen)>>,
                       BlockLen - k, SubSeq(LastDraws, k + 1, BlockLen)))
  IN  Second(Run(before, <<SubSeq(modulator[1], 1, k)>>, k, SubSeq(LastDraws, 1, k)))

\* C12: a block processed as two consecutive non-empty blocks, cut at any
\* frame, with the same random draws and no message between, gives the same
\* samples as the block processed in one call and leaves the same processor
\* (integrators, envelope levels, phases, coefficient caches).
C12_SplitBlockAgrees ==
  (step = "process" /\ ~NoModulator) =>
    \A k \in 1..(BlockLen - 1) : SplitAgrees(k)

\* A signal block run by an engine whose envelopes and filters a first signal
\* block set in motion.
C12_Witness ==
  /\ step = "process" /\ blocks = 2
  /\ modulator = <<Signal>>
  /\ before.bands[1].envelopeFollower.y1 # 0
  /\ before.bands[1].carrierFilter.stages[1].ic1eq # 0
  /\ call.finals[1] # 0
  /\ SplitAgrees(1)

\* ------------------------------------------- properties: carrier ticks

\* The oscillator sy ticked once for each of the draws rnd[i..], in order,
\* under the parameters and sample rate of the processor p.
RECURSIVE Ticked(_, _, _, _)
Ticked(sy, p, rnd, i) ==
  IF i > Len(rnd) THEN sy
  ELSE Ticked(SyProcess(sy, p.params, p.ditty.sampleRate, rnd[i]).sy, p, rnd, i + 1)

\* C13: a process call with modulator input ticks the carrier once per output
\* sample, in the samples' order (the oscillator it leaves is the one it found
\* ticked once with each of the block's draws in turn, whatever the bands
\* did), and over a run the ticks made are as many as the samples computed.
C13_OneTickPerSample ==
  /\ proc.carrierSynth.ticks = prng.pos - nunison
  /\ (step = "process" /\ ~NoModulator) =>
       /\ Len(call.finals) = BlockLen
       /\ proc.carrierSynth.ticks = before.carrierSynth.ticks + BlockLen
       /\ proc.carrierSynth = Ticked(before.carrierSynth, before, LastDraws, 1)
  /\ (step = "process" /\ NoModulator) => proc.carrierSynth = before.carrierSynth

\* Two blocks with modulator input, the second one silence: 2 * BlockLen
\* samples, as many ticks.
C13_Witness ==
  /\ step = "process" /\ blocks = 2
  /\ modulator = <<Silence>>
  /\ before.carrierSynth.ticks = BlockLen
  /\ proc.carrierSynth.ticks = 2 * BlockLen
  /\ prng.pos = nunison + 2 * BlockLen

\* ------------------------------------------ the carrier on its own

\* Ticks of one oscillator in a run.
MaxTicks == 40

\* What Math.random() gives the three voices as initial phases ([0, 1)).
PhaseDraws ==
  {<<0, SCALE \div 2, SCALE - 1>>, <<SCALE - 1, Fix(1, 3), 0>>}
\* What it gives a tick as noise.
NoiseDraws == {0, SCALE - 1}
\* pitch, over the slider's range, and the sample rates of a context.
Pitches == {-24 * SCALE, Fix(3, 10), 24 * SCALE}
CarrierRates == {8000, 44100}

\* new Sy() in a processor of some sample rate, under some pitch.
CarrierInit ==
  /\ \E rnd \in PhaseDraws, pitch \in Pitches, sampleRate \in CarrierRates :
       bench = [sy |-> NewSy(rnd), was |-> NewSy(rnd),
                params |-> [DefaultParams EXCEPT !.pitch = pitch],
                sampleRate |-> sampleRate, out |-> 0]
  /\ proc = None
  /\ prng = None
  /\ EngineQuiet
  /\ HookMounted

\* Sy.process is called.
CarrierTick ==
  /\ bench.sy.ticks < MaxTicks
  /\ \E rnd \in NoiseDraws :
       LET Ticks(r) == bench' = [bench EXCEPT !.sy = r.sy, !.was = bench.sy,
                                              !.out = r.out]
       IN  Ticks(SyProcess(bench.sy, bench.params, bench.sampleRate, rnd))
  /\ UNCHANGED <<engineVars, hookVars>>

CarrierNext == CarrierTick

CarrierSpec == CarrierInit /\ [][CarrierNext]_vars

\* C14: after construction and after every tick each voice's phase lies in
\* [0, 1).
C14_PhasesInUnitInterval ==
  \A i \in 1..Len(bench.sy.ops) :
    0 <= bench.sy.ops[i].p /\ bench.sy.ops[i].p < SCALE

\* A tick that wrapped a phase, at the highest pitch and the lowest rate.
C14_Witness ==
  /\ bench.sy.ticks > 1
  /\ bench.params.pitch = 24 * SCALE /\ bench.sampleRate = 8000
  /\ \E i \in 1..Len(bench.sy.ops) :
       /\ bench.sy.ops[i].p < bench.was.ops[i].p
       /\ bench.was.ops[i].p + Mul(bench.sy.freq, bench.sy.ops[i].detune) >= SCALE

\* ---------------------------------- the envelope follower on its own

\* Inputs fed to one follower in a run.
MaxFeeds == 4
\* Samples a constant input is held for.
MaxHold == 300

\* Values a band's modulator filter returns.
FilterOutputs == {-2 * SCALE, -(SCALE \div 2), -1, 0, 1, Fix(1, 3), SCALE}
\* Constant inputs, and distances of the level from them as the hold begins.
HeldInputs == {SCALE \div 2, SCALE}
Distances == {SCALE \div 4, SCALE \div 2}

\* A follower as initBands makes it, at the level y1.
FollowerAt(y1) == [NewEnvelopeFollower(attack, release) EXCEPT !.y1 = y1]

\* Either a new follower, to be fed the rectified outputs of a filter; or two
\* followers as far below and above a constant input, to be fed that input.
EnvelopeInit ==
  /\ \/ bench = [mode |-> "feed", ef |-> FollowerAt(0), was |-> 0, v |-> 0, n |-> 0]
     \/ \E x \in HeldInputs, d \in Distances :
          bench = [mode |-> "hold", x |-> x, d |-> d,
                   up |-> FollowerAt(x - d), wasUp |-> x - d,
                   down |-> FollowerAt(x + d), wasDown |-> x + d,
                   n |-> 0, upAt |-> 0, downAt |-> 0]
  /\ proc = None
  /\ prng = None
  /\ EngineQuiet
  /\ HookMounted

\* Lines 212-213: envelopeFollower.process(Math.abs(modFiltered)).
EnvelopeFeed ==
  /\ bench.mode = "feed"
  /\ bench.n < MaxFeeds
  /\ \E v \in FilterOutputs :
       bench' = [bench EXCEPT !.ef = EnvelopeProcess(bench.ef, MathAbs(v)),
                              !.was = bench.ef.y1, !.v = v, !.n = bench.n + 1]
  /\ UNCHANGED <<engineVars, hookVars>>

\* The level y is within 1% of the constant x.
Within(y, x) == Abs(y - x) * 100 <= x

\* Both followers process the constant input once more; upAt and downAt
\* record the first sample (counted from the hold's start) at which each is
\* within 1% of it.
EnvelopeHold ==
  /\ bench.mode = "hold"
  /\ bench.n < MaxHold
  /\ LET Held(up, down) ==
           bench' = [bench EXCEPT
                       !.up = up, !.wasUp = bench.up.y1,
                       !.down = down, !.wasDown = bench.down.y1,
                       !.n = bench.n + 1,
                       !.upAt = IF @ = 0 /\ Within(up.y1, bench.x)
                                THEN bench.n + 1 ELSE @,
                       !.downAt = IF @ = 0 /\ Within(down.y1, bench.x)
                                  THEN bench.n + 1 ELSE @]
     IN  Held(EnvelopeProcess(bench.up, bench.x), EnvelopeProcess(bench.down, bench.x))
  /\ UNCHANGED <<engineVars, hookVars>>

EnvelopeNext == EnvelopeFeed \/ EnvelopeHold

EnvelopeSpec == EnvelopeInit /\ [][EnvelopeNext]_vars

\* C15: a follower that starts at 0 and is fed rectified values has a level
\* >= 0 after every call.
C15_EnvelopeNotNegative ==
  bench.mode = "feed" => bench.ef.y1 >= 0

\* A follower fed the rectified -2 and then the rectified -1: it rose under
\* the attack coefficient, then fell under the release coefficient.
C15_Witness ==
  /\ bench.mode = "feed" /\ bench.n = 2
  /\ bench.v = -1
  /\ bench.ef.y1 < bench.was
  /\ bench.ef.y1 > 0

\* Under a constant input each level moves toward the input and does not
\* cross it.
HoldMonotone ==
  bench.mode = "hold" =>
    /\ bench.wasUp <= bench.up.y1 /\ bench.up.y1 <= bench.x
    /\ bench.x <= bench.down.y1 /\ bench.down.y1 <= bench.wasDown

\* C16: under a constant input the level moves toward the input without
\* crossing it, and from the same distance it is within 1% of the input in
\* fewer samples from below (attack) than from above (release).
C16_AttackConvergesFaster ==
  /\ HoldMonotone
  /\ (bench.mode = "hold" /\ bench.downAt # 0) =>
       (bench.upAt # 0 /\ bench.upAt < bench.downAt)

\* ------------------------------------------------ one SVF stage on its own

\* Samples one filter is run for.
MaxSamples == 300

\* Normalized cutoffs in (0, 0.5), the top band's at 44100 Hz and size 0
\* among them, and resonances.
Cutoffs == {Fix(1, 20), MulDivInt(SCALE, 4865, 44100), Fix(1, 4), Fix(49, 100)}
Resonances == {SCALE \div 2, SCALE, 4 * SCALE}

\* new SVF({mode: 'bp', num: 1, q}), its fc set.
FilterInit ==
  /\ \E fc \in Cutoffs, q \in Resonances :
       bench = [svf |-> [NewSVF("bp", 1, q) EXCEPT !.fc = fc], n |-> 0, out |-> 0,
                peak |-> 0]
  /\ proc = None
  /\ prng = None
  /\ EngineQuiet
  /\ HookMounted

\* The larger magnitude of a stage's two integrator states.
Magnitude(s) == IF Abs(s.ic1eq) > Abs(s.ic2eq) THEN Abs(s.ic1eq) ELSE Abs(s.ic2eq)

\* SVF.process: a unit impulse in the first call, 0 in the calls after it.
\* peak is the largest integrator magnitude so far.
FilterStep ==
  /\ bench.n < MaxSamples
  /\ LET Stepped(r) ==
           bench' = [svf |-> r.svf, n |-> bench.n + 1, out |-> r.out,
                     peak |-> IF Magnitude(r.svf.stages[1]) > bench.peak
                              THEN Magnitude(r.svf.stages[1]) ELSE bench.peak]
     IN  Stepped(SVFProcess(bench.svf, IF bench.n = 0 THEN SCALE ELSE 0))
  /\ UNCHANGED <<engineVars, hookVars>>

FilterNext == FilterStep

FilterSpec == FilterInit /\ [][FilterNext]_vars

\* The sample by which the response has to have died away, and what counts
\* as died away (a thousandth of the impulse).
DecayedBy == MaxSamples \div 2
Decayed(s) == Magnitude(s) <= SCALE \div 1000

\* C17: for a cutoff in (0, 0.5) and q > 0 the integrator states of a stage
\* fed a unit impulse and then zeros never exceed twice the impulse, and from
\* DecayedBy samples on they are within a thousandth of it of zero.
C17_ImpulseResponseDecays ==
  /\ Magnitude(bench.svf.stages[1]) <= 2 * SCALE
  /\ bench.n >= DecayedBy => Decayed(bench.svf.stages[1])

\* The most resonant, lowest filter at the end of its run: its integrators
\* rose past a quarter of the impulse's height, and have died away.
C17_Witness ==
  /\ bench.n = MaxSamples
  /\ bench.svf.q = 4 * SCALE /\ bench.svf.fc = Fix(1, 20)
  /\ bench.peak > SCALE \div 4
  /\ Decayed(bench.svf.stages[1])

\* ------------------------------------------------ the encoder on its own

\* Frames of a buffer handed to the encoder.
MaxFrames == 2

\* Sample values of a rendered buffer: inside [-1, 1], at its ends, outside
\* it, and NaN.
SampleValues ==
  {NaN, -2 * SCALE, -SCALE, -(SCALE \div 4), 0, 1, SCALE \div 4, SCALE - 10,
   SCALE, (3 * SCALE) \div 2}
ChannelCounts == {1, 2}
BufferRates == {16000, 44100}

\* An AudioBuffer of some shape, silent; filled counts the samples set so far
\* (frame by frame, channel by channel) and wav is the encoding made of it.
EncoderInit ==
  /\ \E numberOfChannels \in ChannelCounts, length \in 1..MaxFrames,
        sampleRate \in BufferRates :
       bench = [buffer |-> [numberOfChannels |-> numberOfChannels, length |-> length,
                            sampleRate |-> sampleRate,
                            channels |-> ZeroOutput(numberOfChannels, length)],
                filled |-> 0, wav |-> <<>>]
  /\ proc = None
  /\ prng = None
  /\ EngineQuiet
  /\ HookMounted

\* The rendering leaves a value in the next sample of the buffer.
FillSample ==
  /\ bench.wav = <<>>
  /\ bench.filled < bench.buffer.numberOfChannels * bench.buffer.length
  /\ \E x \in SampleValues :
       bench' = [bench EXCEPT
                   !.buffer.channels[(bench.filled % bench.buffer.numberOfChannels) + 1]
                                    [(bench.filled \div bench.buffer.numberOfChannels) + 1] = x,
                   !.filled = bench.filled + 1]
  /\ UNCHANGED <<engineVars, hookVars>>

\* Line 415: audioBufferToWav(renderedBuffer).
Encode ==
  /\ bench.wav = <<>>
  /\ bench' = [bench EXCEPT !.wav = audioBufferToWav(bench.buffer)]
  /\ UNCHANGED <<engineVars, hookVars>>

EncoderNext == FillSample \/ Encode

EncoderSpec == EncoderInit /\ [][EncoderNext]_vars

\* What a reader finds in the file: the unsigned little-endian number in the
\* n bytes from offset at on, and the signed 16-bit number of data word k.
RECURSIVE Field(_, _, _)
Field(bytes, at, n) ==
  IF n = 0 THEN 0 ELSE bytes[at + 1] + 256 * Field(bytes, at + 1, n - 1)

Stored(bytes, k) ==
  IF Field(bytes, 44 + 2 * k, 2) >= 32768
  THEN Field(bytes, 44 + 2 * k, 2) - 65536
  ELSE Field(bytes, 44 + 2 * k, 2)

\* The sample of the buffer that data word k holds (frames interleaved).
SampleOf(buffer, k) ==
  buffer.channels[(k % buffer.numberOfChannels) + 1][(k \div buffer.numberOfChannels) + 1]

\* The data words of a buffer's file.
Words(buffer) == 0..(buffer.numberOfChannels * buffer.length - 1)

\* C18: the file of a buffer of C channels, F frames and rate R has
\* 44 + 2*F*C bytes; its RIFF size is that less 8, its data size 2*F*C, and its
\* fmt chunk holds format 1, C channels, rate R, byte rate 2*R*C, block align
\* 2*C and 16 bits per sample.
C18_HeaderMatchesBuffer ==
  bench.wav # <<>> =>
    /\ Len(bench.wav) = 44 + 2 * bench.buffer.length * bench.buffer.numberOfChannels
    /\ Field(bench.wav, 4, 4) = Len(bench.wav) - 8
    /\ Field(bench.wav, 40, 4) = 2 * bench.buffer.length * bench.buffer.numberOfChannels
    /\ Field(bench.wav, 20, 2) = 1
    /\ Field(bench.wav, 22, 2) = bench.buffer.numberOfChannels
    /\ Field(bench.wav, 24, 4) = bench.buffer.sampleRate
    /\ Field(bench.wav, 28, 4) = bench.buffer.sampleRate * 2 * bench.buffer.numberOfChannels
    /\ Field(bench.wav, 32, 2) = 2 * bench.buffer.numberOfChannels
    /\ Field(bench.wav, 34, 2) = 16

\* The file of a stereo buffer of MaxFrames frames at 44100 Hz, with samples
\* set.
C18_Witness ==
  /\ bench.wav # <<>>
  /\ bench.buffer.numberOfChannels = 2 /\ bench.buffer.length = MaxFrames
  /\ bench.buffer.sampleRate = 44100
  /\ bench.filled = 2 * MaxFrames
  /\ Len(bench.wav) = 44 + 4 * MaxFrames

\* The integer nearest to sample * 32767 (sample >= 0) or sample * 32768
\* (sample < 0), halves upward.
Nearest16(sample) ==
  IF sample < 0 THEN (sample + SCALE \div 65536) \div (SCALE \div 32768)
  ELSE sample \div (SCALE \div 32768)
       + (((sample % (SCALE \div 32768)) * 32768 - sample + SCALE \div 2) \div SCALE)

\* C19: every data word is the clamped sample times 32767 (32768 below 0)
\* rounded to the nearest integer, and lies in [-32768, 32767].
C19_QuantizedToNearest ==
  bench.wav # <<>> =>
    \A k \in Words(bench.buffer) :
      /\ Stored(bench.wav, k) = Nearest16(ClampSample(SampleOf(bench.buffer, k)))
      /\ -32768 <= Stored(bench.wav, k) /\ Stored(bench.wav, k) <= 32767

\* The part of C19 that does not depend on the rounding: a sample outside
\* [-1, 1] is stored as the nearer end, -32768 or 32767, and NaN as 0.
ClampedNoWrap ==
  bench.wav # <<>> =>
    \A k \in Words(bench.buffer) :
      /\ SampleOf(bench.buffer, k) = NaN => Stored(bench.wav, k) = 0
      /\ (SampleOf(bench.buffer, k) # NaN /\ SampleOf(bench.buffer, k) >= SCALE)
           => Stored(bench.wav, k) = 32767
      /\ (SampleOf(bench.buffer, k) # NaN /\ SampleOf(bench.buffer, k) <= -SCALE)
           => Stored(bench.wav, k) = -32768

\* C20: for a sample in [-1, 1] the data word read as word / 32768 is within
\* 1/32768 of the sample.
C20_RoundTripWithinOneStep ==
  bench.wav # <<>> =>
    \A k \in Words(bench.buffer) :
      (/\ SampleOf(bench.buffer, k) # NaN
       /\ -SCALE <= SampleOf(bench.buffer, k) /\ SampleOf(bench.buffer, k) <= SCALE)
        => Abs(Stored(bench.wav, k) * (SCALE \div 32768) - SampleOf(bench.buffer, k))
             <= SCALE \div 32768

\* ------------------------------------------- properties: the download

\* The renderAndDownload calls in flight.
RenderCalls == {t \in TaskIds : tasks[t].op = "renderAndDownload"}

\* The messages logged when a download fails: the two guards of
\* renderAndDownload, and the exception handleDownload catches.
RenderErrors ==
  {"No recorded audio available to download.",
   "Worklet is not ready for offline rendering.",
   "Failed to render and download audio:"}

\* The step logs that a download failed.
RenderErrorLogged ==
  /\ Len(console') = Len(console) + 1
  /\ console'[Len(console')] \in RenderErrors

\* The step triggers one download, of a WAV as long as the whole buffer of a
\* call whose rendering was awaited; that call ends, and no error is logged.
DownloadsRendered ==
  \E t \in Rendering :
    /\ tasks'[t] = IdleTask
    /\ console' = console
    /\ Len(downloads') = Len(downloads) + 1
    /\ SubSeq(downloads', 1, Len(downloads)) = downloads
    /\ downloads'[Len(downloads')].buffer = tasks[t].buffer
    /\ tasks[t].buffer \in BufferNames
    /\ LET buffer == AudioBufferOf(tasks[t].buffer, contexts[tasks[t].context].sampleRate)
       IN  Len(DownloadedWav(downloads'[Len(downloads')]))
             = 44 + 2 * buffer.numberOfChannels * buffer.length

\* C21: a WAV is encoded and downloaded only when an awaited offline
\* rendering completes, and it covers the whole buffer; when the download
\* fails (no recorded buffer, the worklet not ready, the module load or the
\* rendering rejected) nothing is downloaded, the failed call has ended and
\* no call is started in its place.
C21_DownloadOnlyAfterRendering ==
  [][/\ downloads' # downloads => DownloadsRendered
     /\ RenderErrorLogged =>
          /\ downloads' = downloads
          /\ RenderCalls' \subseteq RenderCalls
          /\ \A t \in RenderCalls : tasks'[t] \in {tasks[t], IdleTask}
          /\ console'[Len(console')] = "Failed to render and download audio:"
               => \E t \in RenderCalls : tasks'[t] = IdleTask]_vars

\* A download that failed with an exception, then one that went through.
C21_Witness ==
  /\ console = <<"Failed to render and download audio:">>
  /\ Len(downloads) = 1
  /\ RenderCalls = {}

\* ------------------------------------- SVF.process, one _clock at a time

\* Calls of process made on one filter.
MaxInputs == 3

\* Input samples of a band filter.
FilterInputs == {SCALE, Fix(1, 4), 0, -(SCALE \div 2)}

\* A band filter as line 179 constructs it, at some cutoff, before its first
\* call.  i and pass are the loop's position (i > num: the call has
\* returned, with input the value returned); trace records the _clock calls
\* of the current process call: the stage, the input handed in, and v1.
ClockInit ==
  /\ \E fc \in Cutoffs :
       bench = [svf |-> [NewSVF("bp", 2, 4 * SCALE) EXCEPT !.fc = fc],
                before |-> NewSVF("bp", 2, 4 * SCALE), sample |-> 0,
                input |-> 0, i |-> 3, pass |-> 1, trace |-> <<>>, n |-> 0]
  /\ proc = None
  /\ prng = None
  /\ EngineQuiet
  /\ HookMounted

\* process(input) is called: the coefficients renewed if stale, the loop
\* entered.
ProcessCalled ==
  /\ bench.i > bench.svf.num
  /\ bench.n < MaxInputs
  /\ \E x \in FilterInputs :
       bench' = [bench EXCEPT
                   !.svf = IF CoefficientsStale(@) THEN Coefficients(@) ELSE @,
                   !.before = bench.svf, !.sample = x, !.input = x,
                   !.i = 1, !.pass = 1, !.trace = <<>>, !.n = @ + 1]
  /\ UNCHANGED <<engineVars, hookVars>>

\* One _clock call of the loop; after the second one of a stage, the line
\* input = this.stages[i][this.mode] and ++i.
ClockCalled ==
  /\ bench.i <= bench.svf.num
  /\ LET Clocked(s) ==
           bench' = [bench EXCEPT
                       !.svf.stages[bench.i] = s,
                       !.trace = Append(@, [stage |-> bench.i, input |-> bench.input,
                                            v1 |-> s.bp]),
                       !.pass = IF @ = 1 THEN 2 ELSE 1,
                       !.i = IF bench.pass = 1 THEN @ ELSE @ + 1,
                       !.input = IF bench.pass = 1 THEN @ ELSE Tap(s, bench.svf.mode)]
     IN  Clocked(Clock(bench.svf.stages[bench.i], bench.input,
                       bench.svf.a1, bench.svf.a2, bench.svf.a3))
  /\ UNCHANGED <<engineVars, hookVars>>

ClockNext == ProcessCalled \/ ClockCalled

ClockSpec == ClockInit /\ [][ClockNext]_vars

\* The call of process in progress has returned.
Returned == bench.n > 0 /\ bench.i > bench.svf.num

\* C22: in a call of process the k-th _clock call is on stage ceil(k / 2);
\* the two calls on a stage are handed the same input, the first stage's the
\* sample and every later stage's the v1 of the second call on the stage
\* before it; a call on a filter of two stages has made 4 _clock calls when
\* it returns, and returns the v1 of the last; and process as a whole
\* (SVFProcess) leaves the same stages and returns the same value.
C22_StagesClockedTwiceInOrder ==
  /\ \A k \in 1..Len(bench.trace) :
       /\ bench.trace[k].stage = (k + 1) \div 2
       /\ bench.trace[k].input =
            IF k <= 2 THEN bench.sample ELSE bench.trace[2 * ((k - 1) \div 2)].v1
  /\ Returned =>
       /\ Len(bench.trace) = 4
       /\ bench.input = bench.trace[4].v1
       /\ SVFProcess(bench.before, bench.sample).svf.stages = bench.svf.stages
       /\ SVFProcess(bench.before, bench.sample).out = bench.input

\* A third call has returned, of a filter in motion: the two stages were
\* handed different inputs and the value returned is not 0.
C22_Witness ==
  /\ Returned
  /\ bench.n = MaxInputs
  /\ bench.trace[3].input # bench.trace[1].input
  /\ bench.before.stages[2].ic1eq # 0
  /\ bench.input # 0

\* --------------------------------------- the write loop, one write at a time

\* Values of the samples of a buffer to be written.
WriteValues == {NaN, -SCALE, SCALE \div 4}

\* The buffers of 0..2 channels and 0..MaxFrames frames.
WriteBuffers ==
  UNION {[numberOfChannels : {C}, length : {F}, sampleRate : {44100},
          channels : [1..C -> [1..F -> WriteValues]]] :
           C \in 0..2, F \in 0..MaxFrames}

\* audioBufferToWav up to line 50: the ArrayBuffer of length bytes (zeros)
\* with the header written, pos behind it, offset 0.  pc is where the call
\* is: in the loop, returned, ended by the RangeError of a write outside the
\* view, or in a loop that cannot end; writes records the setInt16 calls made.
WriteInit ==
  /\ \E buffer \in WriteBuffers :
       LET length == buffer.length * buffer.numberOfChannels * 2 + 44
       IN  bench = [buffer |-> buffer, length |-> length,
                    view |-> WavHeader(buffer.numberOfChannels, length, buffer.sampleRate)
                             \o [k \in 1..(length - 44) |-> 0],
                    pos |-> 44, offset |-> 0, i |-> 0, pc |-> "loop", writes |-> <<>>]
  /\ proc = None
  /\ prng = None
  /\ EngineQuiet
  /\ HookMounted

\* channels[i][offset] (undefined, hence 0 after || 0, outside the data).
ChannelSample(buffer, i, offset) ==
  IF i < buffer.numberOfChannels /\ offset < buffer.length
  THEN buffer.channels[i + 1][offset + 1]
  ELSE NaN

\* Lines 52-59 up to and including the next setInt16: the while test (made
\* when a frame begins), then the write of channel i of frame offset and the
\* increments.
WriteStep ==
  /\ bench.pc = "loop"
  /\ LET C == bench.buffer.numberOfChannels
         x == Scaled16(ClampSample(ChannelSample(bench.buffer, bench.i, bench.offset)))
     IN  IF bench.i = 0 /\ ~Writing(bench.pos, bench.length)
         THEN bench' = [bench EXCEPT !.pc = "returned"]
         ELSE IF C = 0
         THEN bench' = [bench EXCEPT !.pc = "endless"]
         ELSE IF bench.pos + 2 > bench.length
         THEN bench' = [bench EXCEPT !.pc = "RangeError"]
         ELSE bench' = [bench EXCEPT
                          !.view = setInt16At(@, bench.pos, x),
                          !.writes = Append(@, [pos |-> bench.pos, frame |-> bench.offset,
                                                channel |-> bench.i]),
                          !.pos = @ + 2,
                          !.i = IF @ + 1 = C THEN 0 ELSE @ + 1,
                          !.offset = IF bench.i + 1 = C THEN @ + 1 ELSE @]
  /\ UNCHANGED <<engineVars, hookVars>>

WriteNext == WriteStep

WriteSpec == WriteInit /\ [][WriteNext]_vars

\* C23: the k-th write (from 0) is of frame k div C, channel k mod C, at
\* byte 44 + 2*k, inside the view, and leaves there the sample's 16-bit value,
\* low byte first; no write is refused and the loop ends; when it has ended
\* F*C writes were made, pos is the total length, and the bytes are those of
\* audioBufferToWav.  Shapes with C = 0 or F = 0 are among the buffers.
C23_InterleavedLayout ==
  /\ bench.pc \in {"loop", "returned"}
  /\ \A k \in 1..Len(bench.writes) :
       /\ bench.writes[k].frame = (k - 1) \div bench.buffer.numberOfChannels
       /\ bench.writes[k].channel = (k - 1) % bench.buffer.numberOfChannels
       /\ bench.writes[k].pos
            = 44 + 2 * (bench.writes[k].frame * bench.buffer.numberOfChannels
                        + bench.writes[k].channel)
       /\ bench.writes[k].pos + 2 <= bench.length
       /\ Stored(bench.view, k - 1)
            = Scaled16(ClampSample(bench.buffer.channels[bench.writes[k].channel + 1]
                                                        [bench.writes[k].frame + 1]))
  /\ bench.pc = "returned" =>
       /\ Len(bench.writes) = bench.buffer.length * bench.buffer.numberOfChannels
       /\ bench.pos = bench.length
       /\ bench.view = audioBufferToWav(bench.buffer)

\* A stereo buffer of MaxFrames frames written out, its last sample negative.
C23_Witness ==
  /\ bench.pc = "returned"
  /\ bench.buffer.numberOfChannels = 2 /\ bench.buffer.length = MaxFrames
  /\ Len(bench.writes) = 2 * MaxFrames
  /\ bench.writes[2 * MaxFrames].pos = bench.length - 2
  /\ Stored(bench.view, 2 * MaxFrames - 1) = -32768

\* A buffer without channels and one without frames: the call has returned
\* without a write, pos at 44.
C23_WitnessEmpty ==
  /\ bench.pc = "returned"
  /\ bench.buffer.numberOfChannels = 0 /\ bench.buffer.length = MaxFrames
  /\ bench.writes = <<>>
  /\ bench.pos = 44

\* ------------------------------------ properties: the hook, interleavings

\* No call is in flight and no message waits in the live node's port.
Settled ==
  /\ \A t \in TaskIds : tasks[t].op = "none"
  /\ vocoderNodeRef # 0 => nodes[vocoderNodeRef].port = <<>>

\* C24: when the live node exists and every await and every posted message
\* has been processed, the snapshot the node's processor holds (the last one
\* posted to it) is the hook's current params.
C24_LiveNodeHasCurrentParams ==
  (vocoderNodeRef # 0 /\ Settled) => nodes[vocoderNodeRef].proc.params = params

\* The parts of C24 that do not depend on when the node is made: a change of
\* params with the live node in place posts the new snapshot to it, and the
\* step that makes the node posts the snapshot its call captured (the
\* params of the time of the call).
SnapshotPosted ==
  [][/\ (params' # params /\ vocoderNodeRef # 0) =>
          nodes'[vocoderNodeRef].port
            = Append(nodes[vocoderNodeRef].port,
                     [type |-> "UPDATE_PARAMS", params |-> params'])
     /\ (vocoderNodeRef = 0 /\ vocoderNodeRef' # 0 /\ nodes'[vocoderNodeRef'].connected) =>
          \/ nodes'[vocoderNodeRef'].port = <<[type |-> "UPDATE_PARAMS", params |-> params]>>
          \/ \E t \in TaskIds :
               /\ tasks[t].op = "togglePlayback"
               /\ nodes'[vocoderNodeRef'].port
                    = <<[type |-> "UPDATE_PARAMS", params |-> tasks[t].closure.params]>>]_vars

\* C25: in the states 'recorded', 'playing' and 'paused' recordedBufferRef
\* holds a decoded buffer.
C25_BufferHeldWhileRecorded ==
  recordingState \in {"recorded", "playing", "paused"} => recordedBufferRef # "null"

\* The part of C25 that holds: in state 'recorded' the buffer is there.
BufferHeldWhenRecorded ==
  recordingState = "recorded" => recordedBufferRef # "null"

\* The calls that have taken a context from await setupAudioContext() and are
\* past it.
HandedContext ==
  {t \in TaskIds :
     /\ tasks[t].op \in {"startRecording", "togglePlayback", "loadSample"}
     /\ tasks[t].pc # "addModule"
     /\ tasks[t].context # 0}

\* C26: a call that setupAudioContext handed a context to holds a context
\* with the worklet module loaded, and the analyser has been created.
C26_ContextHandedWhenReady ==
  \A t \in HandedContext :
    /\ contexts[tasks[t].context].module = "loaded"
    /\ analyserNode # 0

\* The part of C26 about the live node: it is constructed only on a context
\* with the module loaded and the analyser created.
LiveNodeOnReadyContext ==
  vocoderNodeRef # 0 =>
    /\ contexts[contextRef].module = "loaded"
    /\ analyserNode # 0

\* ------------------------------------------ properties: the hook, progress

\* stopRecording() has stopped the recorder; its stop event is queued or its
\* handler in flight.
StopRequested == \E t \in TaskIds : tasks[t].op = "onstop"

\* The tracks of every recorder that was stopped are stopped.
TracksStopped ==
  \A r \in 1..Len(recorders) :
    recorders[r].state = "inactive" => recorders[r].tracks = "stopped"

\* C27: after stopRecording() in state 'recording' the state leaves
\* 'recording' and the microphone tracks are stopped, however the decoding
\* ends.
C27_RecordingEnds ==
  StopRequested ~> (recordingState # "recording" /\ TracksStopped)

\* The part of C27 about the tracks: they are stopped, however the decoding
\* ends.
TracksEventuallyStopped == StopRequested ~> TracksStopped

\* ------------------------------------------- properties: the hook, sources

\* The buffer sources connected to the live node.
Connected == {k \in 1..Len(sources) : sources[k].connected}

\* C28: at most one buffer source is connected to the live node, and the
\* step that starts a playback leaves the new source the only one connected.
C28_OneSourceConnected ==
  /\ [](Cardinality(Connected) <= 1)
  /\ [][Len(sources') > Len(sources) => Connected' = {Len(sources')}]_vars

\* A second playback started while the first one's source was connected:
\* the first source is disconnected (and was never stopped), the second is
\* the one connected.
C28_Witness ==
  /\ Len(sources) = 2
  /\ ~sources[1].connected /\ ~sources[1].stopped
  /\ sources[2].connected
  /\ sourceNodeRef = 2

\* ------------------------------------------- properties: the hook, reset

\* The step in which a call of resetRecording returns: the call itself when
\* it awaits nothing, else the step in which its suspend() resolves.
ResetReturns ==
  \/ resetRecording /\ \A t \in TaskIds : tasks'[t].op # "resetRecording"
  \/ \E t \in TaskIds : tasks[t].op = "resetRecording" /\ tasks'[t].op = "none"

\* When resetRecording returns the state is 'idle', there is no buffer and no
\* source node, and no source is left connected or running.
ResetLeavesNothing ==
  [][ResetReturns =>
       /\ recordingState' = "idle"
       /\ recordedBufferRef' = "null"
       /\ sourceNodeRef' = 0
       /\ \A k \in 1..Len(sources') :
            sources'[k].stopped \/ ~sources'[k].connected]_vars

\* A step of a togglePlayback call that was made in state 'idle': the call,
\* or a step it awaited.
IdleToggleStep ==
  \/ togglePlayback /\ recordingState = "idle"
  \/ \E t \in TaskIds :
       /\ tasks[t].op = "togglePlayback"
       /\ tasks[t].closure.recordingState = "idle"
       /\ tasks'[t] # tasks[t]

\* A togglePlayback made in state 'idle' starts no playback and leaves
\* the state as it is.
IdleToggleDoesNothing ==
  [][IdleToggleStep =>
       /\ sources' = sources
       /\ sourceNodeRef' = sourceNodeRef
       /\ recordingState' = recordingState]_vars

\* C29: a call of resetRecording, in whatever state, ends with the state
\* 'idle', no buffer and no source node, the source that was there stopped
\* and disconnected; and a togglePlayback made after it, in state 'idle',
\* starts no playback and leaves the state 'idle'.
C29_ResetLeavesIdle == ResetLeavesNothing /\ IdleToggleDoesNothing

====
